---- MODULE Spec2Model ----
(***************************************************************************)
(* Cheesy Parts API (Hono on Cloudflare Workers, PostgreSQL via Supabase). *)
(* The relational store is modelled as three tables (sets of rows); every  *)
(* HTTP handler is one action that runs its queries in program order.      *)
(* The handlers that read and then write are modelled a second time, one   *)
(* action per statement, for the requests that run at the same time.       *)
(***************************************************************************)
EXTENDS Integers, FiniteSets, Sequences, Bags, TLC

(* ------------------------------------------------------------------ *)
(* Bounds of the model                                                 *)
(* ------------------------------------------------------------------ *)
NumProjects == 2
\* rows each table is handed ids for in a behaviour
MaxPartRows == 3
MaxOrderRows == 2
MaxItemRows == 2
\* orders of the one vendor of the single-vendor specification
MaxVendorOrders == 3
\* requests that are handled at the same time
MaxInFlight == 2

(* ------------------------------------------------------------------ *)
(* Values                                                              *)
(* ------------------------------------------------------------------ *)
\* SQL NULL of a uuid column (row ids are the positive integers)
NULL == 0
\* SQL NULL of a text or date column
NULL_TEXT == "<null>"
\* a request body is a record of the fields the JSON object carries:
\* body.f !== undefined
Has(body, f) == f \in DOMAIN body
\* faulty variant: a field counts as given as soon as it is not null
Truthy_NotNull(body, f) == Has(body, f) /\ body[f] # NULL_TEXT

\* the JavaScript truthiness of body.f for a string field (null and the empty
\* string are falsy)
Truthy(body, f) == Has(body, f) /\ body[f] \notin {"", NULL_TEXT}
\* the body of a response that carries no row
NO_DATA == "<none>"

VARCHAR_255 == 255
\* amounts of money are counted in cents: the limit of parsePositiveCurrency
CURRENCY_LIMIT == 100000000

Permissions == {"readonly", "editor", "admin"}
PART_TYPES == {"part", "assembly"}
ORDER_STATUSES == {"open", "ordered", "received"}
PART_STATUSES == {"designing", "material", "ordered", "drawing", "ready",
                  "cnc", "laser", "lathe", "mill", "printer", "router",
                  "manufacturing", "outsourced", "welding", "scotchbrite",
                  "anodize", "powder", "coating", "assembly", "done"}

VARIABLES
    projects,      \* ids of the rows of table projects
    parts,         \* rows of table parts
    orders,        \* rows of table orders
    order_items,   \* rows of table order_items
    nextPartId,    \* the next fresh id the store hands out for a part
    nextOrderId,   \* ... for an order
    nextItemId,    \* ... for an order item
    req,           \* the request handled last
    resp,          \* its response
    old,           \* history: the tables as they were when that request arrived
    partLog,       \* history: the rows of parts as inserted, in order of insertion
    inflight       \* the handlers that run statement by statement: for each
                   \* worker its position (pc) and its local variables

vars == <<projects, parts, orders, order_items, nextPartId, nextOrderId,
          nextItemId, req, resp, old, partLog, inflight>>

ProjectIds == 1..NumProjects

\* the requests that can be in flight at once: each is handled by its own
\* invocation of the worker, which shares nothing with the others but the store
Workers == 1..MaxInFlight
IDLE == [pc |-> "idle"]

Snapshot == [parts |-> parts, orders |-> orders, order_items |-> order_items]

Max(S) == CHOOSE x \in S : \A y \in S : y <= x

\* a bearer token as the middleware sees it: whether the header is there,
\* whether the HMAC verifies, whether Date.now() is past expiresAt, and the
\* permission of its payload
NO_TOKEN == [present |-> FALSE, signed |-> FALSE, expired |-> FALSE,
             permission |-> "readonly"]
verifyToken(token) ==
    IF token.signed /\ ~token.expired
    THEN [valid |-> TRUE, permission |-> token.permission]
    ELSE [valid |-> FALSE, permission |-> ""]

\* faulty variant: every session may edit
canEdit_AnySession(permission) == permission \in Permissions

canEdit(permission) == permission = "editor" \/ permission = "admin"

Reply(status, data) == [status |-> status, data |-> data]

\* the auth middleware answering itself: 401 without running the handler
Unauthorized(op) ==
    /\ req' = [op |-> op, permission |-> ""]
    /\ resp' = Reply(401, NO_DATA)
    /\ old' = Snapshot
    /\ UNCHANGED inflight
    /\ UNCHANGED <<projects, parts, orders, order_items, nextPartId, nextOrderId,
                   nextItemId, partLog>>

\* app.use('*', ...): the middleware answers 401 itself unless the token is
\* present and verifies
Rejected(token) == ~token.present \/ ~verifyToken(token).valid
\* c.set('permission', tokenData.permission)
SessionPermission(token) == verifyToken(token).permission

(* ------------------------------------------------------------------ *)
(* Table parts                                                         *)
(* ------------------------------------------------------------------ *)
\* name.replace(/"/g, '&quot;') on the names the model uses
EscapeQuotes(name) == IF name = "2\" tube" THEN "2&quot; tube" ELSE name

\* the stored length of a name (characters)
NameLen(name) ==
    CASE name = "" -> 0
      [] name = "Gear" -> 4
      [] name = "2\" tube" -> 7
      [] name = "2&quot; tube" -> 12
      [] OTHER -> VARCHAR_255 + 1

\* .from('parts').select('part_number').eq('project_id', projectId)
\*   .eq('parent_part_id', parentId).eq('type', 'part'): the filter
\* eq.<value> is an SQL equality, which no row satisfies when the value
\* is null (a NULL column is matched by .is(column, null) only)
SelectSiblings(projectId, parentId) ==
    IF parentId = NULL THEN {}
    ELSE {r \in parts : /\ r.project_id = projectId
                        /\ r.parent_part_id = parentId
                        /\ r.type = "part"}

\* .from('parts').select('part_number').eq('id', parentId).single()
SelectPartById(id) == {r \in parts : r.id = id}

\* .from('parts').select('part_number').eq('project_id', projectId)
\*   .eq('type', 'assembly')
SelectAssemblies(projectId) ==
    {r \in parts : r.project_id = projectId /\ r.type = "assembly"}

\* faulty variant: the assemblies are counted instead of taking the largest number
GeneratePartNumber_ByCount(projectId, type, parentId) ==
    IF type = "part"
    THEN LET siblings == SelectSiblings(projectId, parentId) IN
         IF siblings # {}
         THEN Max({r.part_number : r \in siblings}) + 1
         ELSE IF parentId # NULL
              THEN LET parent == SelectPartById(parentId) IN
                   (IF parent # {} THEN (CHOOSE r \in parent : TRUE).part_number
                                   ELSE 0) + 1
              ELSE 1
    ELSE 100 * (Cardinality(SelectAssemblies(projectId)) + 1)

\* faulty variant: a part under a parent is numbered from the parent alone
GeneratePartNumber_FromParent(projectId, type, parentId) ==
    IF type = "part"
    THEN IF parentId # NULL
         THEN LET parent == SelectPartById(parentId) IN
              (IF parent # {} THEN (CHOOSE r \in parent : TRUE).part_number
                              ELSE 0) + 1
         ELSE 1
    ELSE LET assemblies == SelectAssemblies(projectId) IN
         IF assemblies # {}
         THEN Max({r.part_number : r \in assemblies}) + 100
         ELSE 100

\* the number the handler computes for the new row
GeneratePartNumber(projectId, type, parentId) ==
    IF type = "part"
    THEN LET siblings == SelectSiblings(projectId, parentId) IN
         IF siblings # {}
         THEN Max({r.part_number : r \in siblings}) + 1
         ELSE IF parentId # NULL
              THEN LET parent == SelectPartById(parentId) IN
                   (IF parent # {} THEN (CHOOSE r \in parent : TRUE).part_number
                                   ELSE 0) + 1
              ELSE 1
    ELSE LET assemblies == SelectAssemblies(projectId) IN
         IF assemblies # {}
         THEN Max({r.part_number : r \in assemblies}) + 100
         ELSE 100

NewPartRow(id, projectId, partNumber, type, name, parentId) ==
    [id |-> id, project_id |-> projectId, part_number |-> partNumber,
     type |-> type, name |-> EscapeQuotes(name), parent_part_id |-> parentId,
     status |-> "designing", source_material |-> "", have_material |-> FALSE,
     quantity |-> "", cut_length |-> "", priority |-> 1,
     drawing_created |-> FALSE, notes |-> ""]

\* faulty variant: parent_part_id without its REFERENCES parts(id)
PartsConstraintsHold_NoParentKey(row) ==
    /\ row.project_id \in projects
    /\ row.type \in PART_TYPES
    /\ NameLen(row.name) <= VARCHAR_255
    /\ row.status \in PART_STATUSES
    /\ row.priority \in {0, 1, 2}

\* faulty variant: the index on (project_id, type, part_number) is unique
PartsConstraintsHold_UniqueNumber(row) ==
    /\ row.project_id \in projects
    /\ row.type \in PART_TYPES
    /\ NameLen(row.name) <= VARCHAR_255
    /\ row.parent_part_id = NULL \/ SelectPartById(row.parent_part_id) # {}
    /\ row.status \in PART_STATUSES
    /\ row.priority \in {0, 1, 2}
    /\ ~\E r \in parts : /\ r.id # row.id
                         /\ r.project_id = row.project_id
                         /\ r.type = row.type
                         /\ r.part_number = row.part_number

\* the constraints of CREATE TABLE parts on an inserted row
PartsConstraintsHold(row) ==
    /\ row.project_id \in projects
    /\ row.type \in PART_TYPES
    /\ NameLen(row.name) <= VARCHAR_255
    /\ row.parent_part_id = NULL \/ SelectPartById(row.parent_part_id) # {}
    /\ row.status \in PART_STATUSES
    /\ row.priority \in {0, 1, 2}

\* DELETE FROM parts WHERE id = partId, with parent_part_id ... ON DELETE SET NULL
DeletePartRow(partId) ==
    {IF r.parent_part_id = partId THEN [r EXCEPT !.parent_part_id = NULL] ELSE r
        : r \in {q \in parts : q.id # partId}}

\* faulty variant: only the children of type part are looked for
SelectChildren_PartsOnly(partId) ==
    {r \in parts : r.parent_part_id = partId /\ r.type = "part"}

\* .from('parts').select('id').eq('parent_part_id', partId).limit(1)
SelectChildren(partId) == {r \in parts : r.parent_part_id = partId}

UnchangedOrders == UNCHANGED <<orders, order_items, nextOrderId, nextItemId>>
UnchangedParts == UNCHANGED <<parts, nextPartId, partLog>>

\* app.post('/projects/:projectId/parts')
CreatePart(permission, projectId, body) ==
    /\ req' = [op |-> "POST /projects/:projectId/parts", permission |-> permission,
               projectId |-> projectId, body |-> body]
    /\ old' = Snapshot
    /\ UNCHANGED inflight
    /\ UNCHANGED projects
    /\ UnchangedOrders
    /\ IF ~canEdit(permission)
       THEN resp' = Reply(403, NO_DATA) /\ UnchangedParts
       ELSE IF ~Truthy(body, "type") \/ ~Truthy(body, "name")
       THEN resp' = Reply(400, NO_DATA) /\ UnchangedParts
       ELSE IF body.type \notin {"part", "assembly"}
       THEN resp' = Reply(400, NO_DATA) /\ UnchangedParts
       ELSE LET parentId == IF Has(body, "parentPartId") THEN body.parentPartId
                            ELSE NULL
                partNumber == GeneratePartNumber(projectId, body.type, parentId)
                row == NewPartRow(nextPartId, projectId, partNumber, body.type,
                                  body.name, parentId)
            IN IF PartsConstraintsHold(row)
               THEN /\ parts' = parts \cup {row}
                    /\ nextPartId' = nextPartId + 1
                    /\ partLog' = Append(partLog, row)
                    /\ resp' = Reply(201, row)
               ELSE resp' = Reply(400, NO_DATA) /\ UnchangedParts

\* app.delete('/parts/:id')
DeletePart(permission, partId) ==
    /\ req' = [op |-> "DELETE /parts/:id", permission |-> permission, id |-> partId]
    /\ old' = Snapshot
    /\ UNCHANGED inflight
    /\ UNCHANGED <<projects, nextPartId, partLog>>
    /\ UnchangedOrders
    /\ IF ~canEdit(permission)
       THEN resp' = Reply(403, NO_DATA) /\ UNCHANGED parts
       ELSE IF SelectChildren(partId) # {}
       THEN resp' = Reply(400, NO_DATA) /\ UNCHANGED parts
       ELSE /\ parts' = DeletePartRow(partId)
            /\ resp' = Reply(204, NO_DATA)

\* PART_STATUSES.includes(status)
StatusAllowed(status) == status \in PART_STATUSES

\* faulty variant: a part that is done keeps its status
SetStatus_DoneIsFinal(row, status) ==
    IF row.status = "done" THEN row ELSE [row EXCEPT !.status = status]

\* UPDATE parts SET status = ... on one row
SetStatus(row, status) == [row EXCEPT !.status = status]

\* typeof body.f === 'boolean'
IsBoolean(body, f) == Has(body, f) /\ body[f] \in BOOLEAN

\* faulty variant: updateData takes part_number from the body as well
UpdatedPartRow_WithNumber(row, body) ==
    LET named == IF Truthy(body, "name")
                 THEN [row EXCEPT !.name = EscapeQuotes(body.name)] ELSE row
        staged == IF Truthy(body, "status") THEN SetStatus(named, body.status)
                  ELSE named
    IN [staged EXCEPT
          !.part_number = IF Has(body, "partNumber") THEN body.partNumber ELSE @,
          !.notes = IF Has(body, "notes") THEN body.notes ELSE @,
          !.priority = IF Has(body, "priority") THEN body.priority ELSE @]

\* the row PUT /parts/:id asks the store for: updateData applied to the row
\* (name and status when truthy, haveMaterial and drawingCreated when
\* boolean, the other fields when given); no other key of the body is read
UpdatedPartRow(row, body) ==
    LET named == IF Truthy(body, "name")
                 THEN [row EXCEPT !.name = EscapeQuotes(body.name)] ELSE row
        staged == IF Truthy(body, "status") THEN SetStatus(named, body.status)
                  ELSE named
    IN [staged EXCEPT
          !.notes = IF Has(body, "notes") THEN body.notes ELSE @,
          !.source_material = IF Has(body, "sourceMaterial")
                              THEN body.sourceMaterial ELSE @,
          !.have_material = IF IsBoolean(body, "haveMaterial")
                            THEN body.haveMaterial ELSE @,
          !.quantity = IF Has(body, "quantity") THEN body.quantity ELSE @,
          !.cut_length = IF Has(body, "cutLength") THEN body.cutLength ELSE @,
          !.priority = IF Has(body, "priority") THEN body.priority ELSE @,
          !.drawing_created = IF IsBoolean(body, "drawingCreated")
                              THEN body.drawingCreated ELSE @]

\* updateData is {}: an UPDATE without columns touches and returns no row
EmptyUpdate(body) ==
    /\ ~Truthy(body, "name") /\ ~Truthy(body, "status")
    /\ \A f \in {"notes", "sourceMaterial", "quantity", "cutLength", "priority"} :
          ~Has(body, f)
    /\ ~IsBoolean(body, "haveMaterial") /\ ~IsBoolean(body, "drawingCreated")

\* app.put('/parts/:id')
UpdatePart(permission, partId, body) ==
    /\ req' = [op |-> "PUT /parts/:id", permission |-> permission, id |-> partId,
               body |-> body]
    /\ old' = Snapshot
    /\ UNCHANGED inflight
    /\ UNCHANGED <<projects, nextPartId, partLog>>
    /\ UnchangedOrders
    /\ IF ~canEdit(permission)
       THEN resp' = Reply(403, NO_DATA) /\ UNCHANGED parts
       ELSE IF Truthy(body, "status") /\ ~StatusAllowed(body.status)
       THEN resp' = Reply(400, NO_DATA) /\ UNCHANGED parts
       ELSE LET target == SelectPartById(partId) IN
            IF target = {} \/ EmptyUpdate(body)
            THEN resp' = Reply(400, NO_DATA) /\ UNCHANGED parts   \* .single()
            ELSE LET current == CHOOSE r \in target : TRUE
                     row == UpdatedPartRow(current, body)
                 IN IF PartsConstraintsHold(row)
                    THEN /\ parts' = (parts \ {current}) \cup {row}
                         /\ resp' = Reply(200, row)
                    ELSE resp' = Reply(400, NO_DATA) /\ UNCHANGED parts

\* app.patch('/parts/:id/status')
UpdatePartStatus(permission, partId, body) ==
    /\ req' = [op |-> "PATCH /parts/:id/status", permission |-> permission,
               id |-> partId, body |-> body]
    /\ old' = Snapshot
    /\ UNCHANGED inflight
    /\ UNCHANGED <<projects, nextPartId, partLog>>
    /\ UnchangedOrders
    /\ IF ~canEdit(permission)
       THEN resp' = Reply(403, NO_DATA) /\ UNCHANGED parts
       ELSE IF ~Truthy(body, "status") \/ ~StatusAllowed(body.status)
       THEN resp' = Reply(400, NO_DATA) /\ UNCHANGED parts
       ELSE LET target == SelectPartById(partId) IN
            IF target = {}
            THEN resp' = Reply(400, NO_DATA) /\ UNCHANGED parts   \* .single()
            ELSE LET current == CHOOSE r \in target : TRUE
                     row == SetStatus(current, body.status)
                 IN IF PartsConstraintsHold(row)
                    THEN /\ parts' = (parts \ {current}) \cup {row}
                         /\ resp' = Reply(200, row)
                    ELSE resp' = Reply(400, NO_DATA) /\ UNCHANGED parts

\* faulty variant: the query forgets .neq('status', 'done')
SelectDashboardParts_WithDone(projectId, query) ==
    {r \in parts :
        /\ r.project_id = projectId
        /\ (Truthy(query, "status") /\ StatusAllowed(query.status)) =>
               r.status = query.status}

\* .from('parts').select('*').eq('project_id', projectId).neq('status', 'done'),
\* with .eq('status', status) when the query names one of the statuses
SelectDashboardParts(projectId, query) ==
    {r \in parts :
        /\ r.project_id = projectId
        /\ r.status # "done"
        /\ (Truthy(query, "status") /\ StatusAllowed(query.status)) =>
               r.status = query.status}

\* the grouping loop: one list per status, each returned part pushed to the
\* list of its status (the lists as bags: the order of a list is the store's)
GroupByStatus(rows) ==
    [s \in PART_STATUSES |-> SetToBag({r \in rows : r.status = s})]

\* app.get('/projects/:projectId/dashboard')
GetDashboard(permission, projectId, query) ==
    /\ req' = [op |-> "GET /projects/:projectId/dashboard",
               permission |-> permission, projectId |-> projectId,
               query |-> query]
    /\ old' = Snapshot
    /\ UNCHANGED inflight
    /\ UNCHANGED projects
    /\ UnchangedParts
    /\ UnchangedOrders
    /\ LET rows == SelectDashboardParts(projectId, query) IN
       resp' = Reply(200, [project |-> IF projectId \in projects THEN projectId
                                       ELSE NULL,
                           partsByStatus |-> GroupByStatus(rows),
                           totalParts |-> Cardinality(rows)])

(* ------------------------------------------------------------------ *)
(* Tables orders and order_items                                       *)
(* ------------------------------------------------------------------ *)
\* a vendor name of 256 characters, one more than vendor_name VARCHAR(255) holds
LONG_VENDOR == "<256 characters>"

\* the length of a vendor name (characters)
VendorLen(vendor) ==
    CASE vendor = "" -> 0
      [] vendor = "Acme" -> 4
      [] vendor = "Bolt" -> 4
      [] vendor = "constructor" -> 11
      [] OTHER -> VARCHAR_255 + 1

\* a description of 256 characters, one more than description VARCHAR(255) holds
LONG_TEXT == "<256 characters of text>"

\* the length of an item's description (characters)
DescriptionLen(description) ==
    CASE description = "" -> 0
      [] description = "bolts" -> 5
      [] OTHER -> VARCHAR_255 + 1

\* parsePositiveCurrency of a number of cents (Math.round(num * 100) / 100
\* leaves a whole number of cents as it is)
parsePositiveCurrency(value) ==
    IF value < 0 THEN 0
    ELSE IF value > CURRENCY_LIMIT THEN CURRENCY_LIMIT
    ELSE value

\* the result of .single(): the row when exactly one row matches, else no data
Single(rows) == IF Cardinality(rows) = 1 THEN rows ELSE {}

\* faulty variant: the lookup forgets the filter on status
SelectOpenOrder_AnyStatus(projectId, vendor) ==
    Single({o \in orders : o.project_id = projectId /\ o.vendor_name = vendor})

\* faulty variant: the lookup forgets the filter on project_id
SelectOpenOrder_AnyProject(projectId, vendor) ==
    Single({o \in orders : o.vendor_name = vendor /\ o.status = "open"})

\* .from('orders').select('id').eq('project_id', projectId)
\*   .eq('vendor_name', vendor).eq('status', 'open').single()
SelectOpenOrder(projectId, vendor) ==
    Single({o \in orders : /\ o.project_id = projectId
                           /\ o.vendor_name = vendor
                           /\ o.status = "open"})

\* the row that .insert({project_id, vendor_name, status: 'open'}) stores:
\* the other columns take the defaults of CREATE TABLE orders
NewOrderRow(id, projectId, vendor) ==
    [id |-> id, project_id |-> projectId, vendor_name |-> vendor,
     status |-> "open", ordered_at |-> NULL_TEXT, paid_for_by |-> NULL_TEXT,
     tax_cost |-> 0, shipping_cost |-> 0, notes |-> "", reimbursed |-> FALSE]

\* faulty variant: a unique index on (project_id, vendor_name) of open orders
OrdersConstraintsHold_OneOpen(row) ==
    /\ row.project_id \in projects
    /\ VendorLen(row.vendor_name) <= VARCHAR_255
    /\ row.status \in ORDER_STATUSES
    /\ row.status = "open" =>
          ~\E o \in orders : /\ o.id # row.id
                             /\ o.project_id = row.project_id
                             /\ o.vendor_name = row.vendor_name
                             /\ o.status = "open"

\* the constraints of CREATE TABLE orders on a row
OrdersConstraintsHold(row) ==
    /\ row.project_id \in projects
    /\ VendorLen(row.vendor_name) <= VARCHAR_255
    /\ row.status \in ORDER_STATUSES

\* the find-or-create of the order of a vendor, shared by POST and PUT of an
\* order item: the order id the handler ends with (NULL for undefined or
\* null) and the orders table after it
FindOrCreateOrder(projectId, vendor) ==
    LET existingOrder == SelectOpenOrder(projectId, vendor) IN
    IF existingOrder # {}
    THEN [orderId |-> (CHOOSE o \in existingOrder : TRUE).id, orders |-> orders,
          inserted |-> FALSE]
    ELSE LET row == NewOrderRow(nextOrderId, projectId, vendor) IN
         IF OrdersConstraintsHold(row)
         THEN [orderId |-> row.id, orders |-> orders \cup {row}, inserted |-> TRUE]
         ELSE [orderId |-> NULL, orders |-> orders, inserted |-> FALSE]

\* Math.max(1, Math.min(10000, parseInt(quantity) || 1)) of an integer
ClampQuantity(quantity) ==
    LET parsed == IF quantity = 0 THEN 1 ELSE quantity      \* parseInt(q) || 1
        capped == IF parsed > 10000 THEN 10000 ELSE parsed   \* Math.min(10000, .)
    IN IF capped < 1 THEN 1 ELSE capped                      \* Math.max(1, .)

\* the quantity column of the row POST stores: parseInt(undefined) is NaN
PostedQuantity(body) ==
    IF Has(body, "quantity") THEN ClampQuantity(body.quantity) ELSE 1

\* the row .insert({...}) of an order item stores: description || '' and
\* parsePositiveCurrency(unitCost), which is 0 for undefined (NaN)
NewItemRow(id, projectId, orderId, body) ==
    [id |-> id, project_id |-> projectId, order_id |-> orderId,
     quantity |-> PostedQuantity(body), part_number |-> "",
     description |-> IF Truthy(body, "description") THEN body.description ELSE "",
     unit_cost |-> IF Has(body, "unitCost") THEN parsePositiveCurrency(body.unitCost)
                   ELSE 0,
     notes |-> ""]

\* the constraints of CREATE TABLE order_items on a row, given the orders table
ItemsConstraintsHold(row, ordersNow) ==
    /\ row.project_id \in projects
    /\ row.order_id = NULL \/ \E o \in ordersNow : o.id = row.order_id
    /\ DescriptionLen(row.description) <= VARCHAR_255

\* app.post('/projects/:projectId/order-items')
CreateOrderItem(permission, projectId, body) ==
    /\ req' = [op |-> "POST /projects/:projectId/order-items",
               permission |-> permission, projectId |-> projectId, body |-> body]
    /\ old' = Snapshot
    /\ UNCHANGED inflight
    /\ UNCHANGED projects
    /\ UnchangedParts
    /\ IF ~canEdit(permission)
       THEN /\ resp' = Reply(403, NO_DATA)
            /\ UnchangedOrders
       ELSE LET found == IF Truthy(body, "vendor")
                         THEN FindOrCreateOrder(projectId, body.vendor)
                         ELSE [orderId |-> NULL, orders |-> orders, inserted |-> FALSE]
                row == NewItemRow(nextItemId, projectId, found.orderId, body)
            IN /\ orders' = found.orders
               /\ nextOrderId' = IF found.inserted THEN nextOrderId + 1 ELSE nextOrderId
               /\ IF ItemsConstraintsHold(row, found.orders)
                  THEN /\ order_items' = order_items \cup {row}
                       /\ nextItemId' = nextItemId + 1
                       /\ resp' = Reply(201, row)
                  ELSE /\ resp' = Reply(400, NO_DATA)
                       /\ UNCHANGED <<order_items, nextItemId>>

\* .from('order_items').select('project_id, order_id').eq('id', itemId).single()
SelectItemById(itemId) == Single({i \in order_items : i.id = itemId})

\* app.put('/order-items/:id')
UpdateOrderItem(permission, itemId, body) ==
    /\ req' = [op |-> "PUT /order-items/:id", permission |-> permission,
               id |-> itemId, body |-> body]
    /\ old' = Snapshot
    /\ UNCHANGED inflight
    /\ UNCHANGED <<projects, nextItemId>>
    /\ UnchangedParts
    /\ IF ~canEdit(permission)
       THEN /\ resp' = Reply(403, NO_DATA)
            /\ UnchangedOrders
       ELSE IF SelectItemById(itemId) = {}
       THEN /\ resp' = Reply(404, NO_DATA)
            /\ UnchangedOrders
       ELSE LET currentItem == CHOOSE i \in SelectItemById(itemId) : TRUE
                found == IF ~Has(body, "vendor")
                         THEN [orderId |-> currentItem.order_id, orders |-> orders,
                               inserted |-> FALSE]
                         ELSE IF Truthy(body, "vendor")
                         THEN FindOrCreateOrder(currentItem.project_id, body.vendor)
                         ELSE [orderId |-> NULL, orders |-> orders, inserted |-> FALSE]
                row == [currentItem EXCEPT
                          !.order_id = found.orderId,
                          !.quantity = IF Has(body, "quantity")
                                       THEN ClampQuantity(body.quantity) ELSE @,
                          !.description = IF Has(body, "description")
                                          THEN body.description ELSE @,
                          !.unit_cost = IF Has(body, "unitCost")
                                        THEN parsePositiveCurrency(body.unitCost)
                                        ELSE @]
            IN /\ orders' = found.orders
               /\ nextOrderId' = IF found.inserted THEN nextOrderId + 1 ELSE nextOrderId
               /\ IF ItemsConstraintsHold(row, found.orders)
                  THEN /\ order_items' = (order_items \ {currentItem}) \cup {row}
                       /\ resp' = Reply(200, row)
                  ELSE /\ resp' = Reply(400, NO_DATA)
                       /\ UNCHANGED order_items

\* app.delete('/order-items/:id')
DeleteOrderItem(permission, itemId) ==
    /\ req' = [op |-> "DELETE /order-items/:id", permission |-> permission,
               id |-> itemId]
    /\ old' = Snapshot
    /\ UNCHANGED inflight
    /\ UNCHANGED <<projects, orders, nextOrderId, nextItemId>>
    /\ UnchangedParts
    /\ IF ~canEdit(permission)
       THEN resp' = Reply(403, NO_DATA) /\ UNCHANGED order_items
       ELSE /\ order_items' = {i \in order_items : i.id # itemId}
            /\ resp' = Reply(204, NO_DATA)

\* app.put('/orders/:id') with a body of status, paidForBy, taxCost,
\* shippingCost and reimbursed
UpdateOrder(permission, orderId, body) ==
    /\ req' = [op |-> "PUT /orders/:id", permission |-> permission,
               id |-> orderId, body |-> body]
    /\ old' = Snapshot
    /\ UNCHANGED inflight
    /\ UNCHANGED <<projects, order_items, nextOrderId, nextItemId>>
    /\ UnchangedParts
    /\ IF ~canEdit(permission)
       THEN resp' = Reply(403, NO_DATA) /\ UNCHANGED orders
       ELSE LET target == Single({o \in orders : o.id = orderId}) IN
            IF target = {}
            THEN resp' = Reply(400, NO_DATA) /\ UNCHANGED orders
            ELSE LET order == CHOOSE o \in target : TRUE
                     row == [order EXCEPT
                               !.status = IF Truthy(body, "status")
                                          THEN body.status ELSE @,
                               !.paid_for_by = IF Has(body, "paidForBy")
                                               THEN body.paidForBy ELSE @,
                               !.tax_cost = IF Has(body, "taxCost")
                                            THEN parsePositiveCurrency(body.taxCost)
                                            ELSE @,
                               !.shipping_cost =
                                   IF Has(body, "shippingCost")
                                   THEN parsePositiveCurrency(body.shippingCost)
                                   ELSE @,
                               !.reimbursed = IF Has(body, "reimbursed")
                                              THEN body.reimbursed ELSE @]
                 IN IF OrdersConstraintsHold(row)
                    THEN /\ orders' = (orders \ {order}) \cup {row}
                         /\ resp' = Reply(200, row)
                    ELSE resp' = Reply(400, NO_DATA) /\ UNCHANGED orders

\* faulty variant: the items are filtered on their own id
SelectItemsOfOrder_ById(orderId) == {i \in order_items : i.id = orderId}

\* .from('order_items').select('id').eq('order_id', orderId).limit(1)
SelectItemsOfOrder(orderId) == {i \in order_items : i.order_id = orderId}

\* DELETE FROM orders WHERE id = orderId, with order_id ... ON DELETE SET NULL
DeleteOrderRow(orderId) == {o \in orders : o.id # orderId}

ItemsAfterOrderDelete(orderId) ==
    {IF i.order_id = orderId THEN [i EXCEPT !.order_id = NULL] ELSE i
        : i \in order_items}

\* app.delete('/orders/:id')
DeleteOrder(permission, orderId) ==
    /\ req' = [op |-> "DELETE /orders/:id", permission |-> permission,
               id |-> orderId]
    /\ old' = Snapshot
    /\ UNCHANGED inflight
    /\ UNCHANGED <<projects, nextOrderId, nextItemId>>
    /\ UnchangedParts
    /\ IF ~canEdit(permission)
       THEN resp' = Reply(403, NO_DATA) /\ UNCHANGED <<orders, order_items>>
       ELSE IF SelectItemsOfOrder(orderId) # {}
       THEN resp' = Reply(400, NO_DATA) /\ UNCHANGED <<orders, order_items>>
       ELSE /\ orders' = DeleteOrderRow(orderId)
            /\ order_items' = ItemsAfterOrderDelete(orderId)
            /\ resp' = Reply(204, NO_DATA)


\* .select('*, order_items(*)'): the order with the items that reference it
EmbedItems(order) == ("order_items" :> SelectItemsOfOrder(order.id)) @@ order

\* .from('orders').select('*, order_items(*)').eq('project_id', projectId)
\*   .neq('status', 'open')
SelectCommittedOrders(projectId) ==
    {EmbedItems(o) : o \in {q \in orders : /\ q.project_id = projectId
                                            /\ q.status # "open"}}

\* the names every object literal inherits from Object.prototype: for such a
\* key k, obj[k] of a fresh {} is an inherited function or object, not undefined
PrototypeKeys == {"constructor", "toString", "valueOf", "hasOwnProperty", "__proto__"}

RECURSIVE SumOf(_, _)
\* xs.reduce((sum, x) => sum + f[x], 0) over the elements of a set
SumOf(f, xs) ==
    IF xs = {} THEN 0
    ELSE LET x == CHOOSE y \in xs : TRUE IN f[x] + SumOf(f, xs \ {x})

\* itemsCost + (order.tax_cost || 0) + (order.shipping_cost || 0)
OrderTotalCost(order) ==
    SumOf([i \in order.order_items |-> i.quantity * i.unit_cost], order.order_items)
        + order.tax_cost + order.shipping_cost

\* { ...order, totalCost }
WithTotalCost(order) == ("totalCost" :> OrderTotalCost(order)) @@ order

\* the first loop: byVendor as a function of the vendors that got a property
GroupByVendor(rows) ==
    [v \in {o.vendor_name : o \in rows} |->
        LET mine == {o \in rows : o.vendor_name = v} IN
        [orders |-> {WithTotalCost(o) : o \in mine},
         totalCost |-> SumOf([o \in mine |-> OrderTotalCost(o)], mine)]]

\* order.paid_for_by || 'Unknown'
PurchaserOf(order) ==
    IF order.paid_for_by \in {NULL_TEXT, ""} THEN "Unknown" ELSE order.paid_for_by

\* the second loop: byPurchaser as a function of the purchasers that got a
\* property. For a purchaser named like an inherited key, !byPurchaser[key]
\* is false, no property is created, and the sums are added to the inherited
\* object, which the JSON of the response does not show
GroupByPurchaser(rows) ==
    [p \in {PurchaserOf(o) : o \in rows} \ PrototypeKeys |->
        LET mine == {o \in rows : PurchaserOf(o) = p} IN
        [reimbursed |-> SumOf([o \in mine |-> OrderTotalCost(o)],
                              {o \in mine : o.reimbursed}),
         outstanding |-> SumOf([o \in mine |-> OrderTotalCost(o)],
                               {o \in mine : ~o.reimbursed})]]

\* app.get('/projects/:projectId/orders/stats'). For a vendor named like an
\* inherited key, !byVendor[key] is false, byVendor[key].orders is undefined
\* and .push throws a TypeError, which the catch turns into a 500
GetOrderStats(permission, projectId) ==
    /\ req' = [op |-> "GET /projects/:projectId/orders/stats",
               permission |-> permission, projectId |-> projectId]
    /\ old' = Snapshot
    /\ UNCHANGED inflight
    /\ UNCHANGED projects
    /\ UnchangedParts
    /\ UnchangedOrders
    /\ LET rows == SelectCommittedOrders(projectId) IN
       IF \E o \in rows : o.vendor_name \in PrototypeKeys
       THEN resp' = Reply(500, NO_DATA)
       ELSE resp' = Reply(200, [byVendor |-> GroupByVendor(rows),
                                byPurchaser |-> GroupByPurchaser(rows)])

\* app.get('/projects/:projectId/parts'): the parts of the project
GetParts(permission, projectId) ==
    /\ req' = [op |-> "GET /projects/:projectId/parts", permission |-> permission,
               projectId |-> projectId]
    /\ old' = Snapshot
    /\ UNCHANGED inflight
    /\ UNCHANGED projects
    /\ UnchangedParts
    /\ UnchangedOrders
    /\ resp' = Reply(200, {r \in parts : r.project_id = projectId})

\* app.get('/projects/:projectId/orders'): the orders of the project with
\* their items
GetOrders(permission, projectId) ==
    /\ req' = [op |-> "GET /projects/:projectId/orders", permission |-> permission,
               projectId |-> projectId]
    /\ old' = Snapshot
    /\ UNCHANGED inflight
    /\ UNCHANGED projects
    /\ UnchangedParts
    /\ UnchangedOrders
    /\ resp' = Reply(200, {EmbedItems(o) : o \in {q \in orders :
                                                    q.project_id = projectId}})

\* DELETE FROM projects WHERE id = projectId on table parts: project_id ...
\* ON DELETE CASCADE removes the project's parts, parent_part_id ... ON
\* DELETE SET NULL clears the references to them
PartsAfterProjectDelete(projectId) ==
    LET gone == {r.id : r \in {q \in parts : q.project_id = projectId}} IN
    {IF r.parent_part_id \in gone THEN [r EXCEPT !.parent_part_id = NULL] ELSE r
        : r \in {q \in parts : q.project_id # projectId}}

\* ... on table orders: project_id ... ON DELETE CASCADE
OrdersAfterProjectDelete(projectId) == {o \in orders : o.project_id # projectId}

\* ... on table order_items: project_id ... ON DELETE CASCADE, order_id ...
\* ON DELETE SET NULL
ItemsAfterProjectDelete(projectId) ==
    LET gone == {o.id : o \in {q \in orders : q.project_id = projectId}} IN
    {IF i.order_id \in gone THEN [i EXCEPT !.order_id = NULL] ELSE i
        : i \in {j \in order_items : j.project_id # projectId}}

\* app.delete('/projects/:id')
DeleteProject(permission, projectId) ==
    /\ req' = [op |-> "DELETE /projects/:id", permission |-> permission,
               id |-> projectId]
    /\ old' = Snapshot
    /\ UNCHANGED inflight
    /\ UNCHANGED <<nextPartId, nextOrderId, nextItemId, partLog>>
    /\ IF ~canEdit(permission)
       THEN /\ resp' = Reply(403, NO_DATA)
            /\ UNCHANGED <<projects, parts, orders, order_items>>
       ELSE /\ projects' = projects \ {projectId}
            /\ parts' = PartsAfterProjectDelete(projectId)
            /\ orders' = OrdersAfterProjectDelete(projectId)
            /\ order_items' = ItemsAfterProjectDelete(projectId)
            /\ resp' = Reply(204, NO_DATA)

(* ------------------------------------------------------------------ *)
(* The handlers of parts, statement by statement                       *)
(* ------------------------------------------------------------------ *)
\* Each await of a handler is one statement of the store. Worker w keeps
\* the handler's local variables in inflight[w] between two statements, and
\* the statements of different workers interleave freely.
Free(w) == inflight[w].pc \in {"idle", "done"}
\* the handler returned: its locals stay readable until the worker is reused
Done(locals, status) == [locals EXCEPT !.pc = "done", !.status = status]
UnchangedHistory == UNCHANGED <<req, resp, old>>

\* faulty variant: the next assembly is numbered one above the largest
NextAssemblyNumber_PlusOne(assemblies) ==
    IF assemblies # {} THEN Max({r.part_number : r \in assemblies}) + 1 ELSE 100

\* assemblies[0].part_number + 100, or 100
NextAssemblyNumber(assemblies) ==
    IF assemblies # {} THEN Max({r.part_number : r \in assemblies}) + 100 ELSE 100

\* POST /projects/:projectId/parts up to its first query: the siblings of
\* a part, or the assemblies of the project
CreatePartSelect(w, permission, projectId, body) ==
    /\ Free(w)
    /\ UnchangedHistory
    /\ UNCHANGED <<projects, parts, nextPartId, partLog>>
    /\ UnchangedOrders
    /\ LET locals == [pc |-> "insert", op |-> "POST /projects/:projectId/parts",
                      projectId |-> projectId, body |-> body,
                      parentId |-> IF Truthy(body, "type") /\ Has(body, "parentPartId")
                                   THEN body.parentPartId ELSE NULL,
                      seen |-> {r.id : r \in parts}, partNumber |-> 0,
                      status |-> 0, row |-> NO_DATA]
       IN inflight' = [inflight EXCEPT ![w] =
            IF ~canEdit(permission) THEN Done(locals, 403)
            ELSE IF ~Truthy(body, "type") \/ ~Truthy(body, "name")
            THEN Done(locals, 400)
            ELSE IF body.type \notin {"part", "assembly"} THEN Done(locals, 400)
            ELSE IF body.type = "part"
            THEN LET siblings == SelectSiblings(projectId, locals.parentId) IN
                 IF siblings # {}
                 THEN [locals EXCEPT
                         !.partNumber = Max({r.part_number : r \in siblings}) + 1]
                 ELSE IF locals.parentId # NULL
                 THEN [locals EXCEPT !.pc = "parent"]
                 ELSE [locals EXCEPT !.partNumber = 1]
            ELSE [locals EXCEPT
                    !.partNumber = NextAssemblyNumber(SelectAssemblies(projectId))]]

\* ... its second query, of a part without siblings: the parent's number
CreatePartSelectParent(w) ==
    /\ inflight[w].pc = "parent"
    /\ UnchangedHistory
    /\ UNCHANGED <<projects, parts, nextPartId, partLog>>
    /\ UnchangedOrders
    /\ LET parent == SelectPartById(inflight[w].parentId) IN
       inflight' = [inflight EXCEPT ![w] =
          [@ EXCEPT !.pc = "insert",
                    !.partNumber =
                        (IF parent # {} THEN (CHOOSE r \in parent : TRUE).part_number
                                        ELSE 0) + 1]]

\* ... its insert
CreatePartInsert(w) ==
    /\ inflight[w].pc = "insert"
    /\ inflight[w].op = "POST /projects/:projectId/parts"
    /\ UnchangedHistory
    /\ UNCHANGED projects
    /\ UnchangedOrders
    /\ LET locals == inflight[w]
           row == NewPartRow(nextPartId, locals.projectId, locals.partNumber,
                             locals.body.type, locals.body.name, locals.parentId)
       IN IF PartsConstraintsHold(row)
          THEN /\ parts' = parts \cup {row}
               /\ nextPartId' = nextPartId + 1
               /\ partLog' = Append(partLog, row)
               /\ inflight' = [inflight EXCEPT ![w] =
                                  [Done(locals, 201) EXCEPT !.row = row]]
          ELSE /\ inflight' = [inflight EXCEPT ![w] = Done(locals, 400)]
               /\ UnchangedParts

\* DELETE /parts/:id up to its query for children
DeletePartSelectChildren(w, permission, partId) ==
    /\ Free(w)
    /\ UnchangedHistory
    /\ UNCHANGED <<projects, parts, nextPartId, partLog>>
    /\ UnchangedOrders
    /\ LET locals == [pc |-> "delete", op |-> "DELETE /parts/:id", id |-> partId,
                      status |-> 0]
       IN inflight' = [inflight EXCEPT ![w] =
            IF ~canEdit(permission) THEN Done(locals, 403)
            ELSE IF SelectChildren(partId) # {} THEN Done(locals, 400)
            ELSE locals]

\* ... its delete
DeletePartDelete(w) ==
    /\ inflight[w].pc = "delete"
    /\ inflight[w].op = "DELETE /parts/:id"
    /\ UnchangedHistory
    /\ UNCHANGED <<projects, nextPartId, partLog>>
    /\ UnchangedOrders
    /\ parts' = DeletePartRow(inflight[w].id)
    /\ inflight' = [inflight EXCEPT ![w] = Done(@, 204)]

(* ------------------------------------------------------------------ *)
(* The handlers of orders and order items, statement by statement      *)
(* ------------------------------------------------------------------ *)
\* the local variables of a handler of order items before its first statement
ItemLocals(op, itemId, projectId, body) ==
    [pc |-> "insertItem", op |-> op, id |-> itemId, projectId |-> projectId,
     body |-> body, orderId |-> NULL, seen |-> {o.id : o \in orders},
     inserted |-> FALSE, was |-> NULL, status |-> 0, row |-> NO_DATA]

\* POST /projects/:projectId/order-items up to its lookup of the open order
\* of the vendor (a body without vendor goes on to the insert of the item)
CreateItemSelectOrder(w, permission, projectId, body) ==
    /\ Free(w)
    /\ UnchangedHistory
    /\ UNCHANGED projects
    /\ UnchangedParts
    /\ UnchangedOrders
    /\ LET locals == ItemLocals("POST /projects/:projectId/order-items", NULL,
                                projectId, body)
       IN inflight' = [inflight EXCEPT ![w] =
            IF ~canEdit(permission) THEN Done(locals, 403)
            ELSE IF ~Truthy(body, "vendor") THEN locals
            ELSE LET existingOrder == SelectOpenOrder(projectId, body.vendor) IN
                 IF existingOrder # {}
                 THEN [locals EXCEPT
                         !.orderId = (CHOOSE o \in existingOrder : TRUE).id]
                 ELSE [locals EXCEPT !.pc = "insertOrder"]]

\* the insert of an order by POST or PUT of an order item: its error is not
\* looked at, orderId is newOrder?.id
ItemInsertOrder(w) ==
    /\ inflight[w].pc = "insertOrder"
    /\ UnchangedHistory
    /\ UNCHANGED <<projects, order_items, nextItemId>>
    /\ UnchangedParts
    /\ LET locals == inflight[w]
           row == NewOrderRow(nextOrderId, locals.projectId, locals.body.vendor)
           next == IF locals.op = "PUT /order-items/:id" THEN "update"
                   ELSE "insertItem"
       IN IF OrdersConstraintsHold(row)
          THEN /\ orders' = orders \cup {row}
               /\ nextOrderId' = nextOrderId + 1
               /\ inflight' = [inflight EXCEPT ![w] =
                     [locals EXCEPT !.pc = next, !.orderId = row.id,
                                    !.inserted = TRUE]]
          ELSE /\ UNCHANGED <<orders, nextOrderId>>
               /\ inflight' = [inflight EXCEPT ![w] =
                     [locals EXCEPT !.pc = next, !.orderId = NULL]]

\* POST /projects/:projectId/order-items: its insert of the item
CreateItemInsert(w) ==
    /\ inflight[w].pc = "insertItem"
    /\ UnchangedHistory
    /\ UNCHANGED <<projects, orders, nextOrderId>>
    /\ UnchangedParts
    /\ LET locals == inflight[w]
           row == NewItemRow(nextItemId, locals.projectId, locals.orderId,
                             locals.body)
       IN IF ItemsConstraintsHold(row, orders)
          THEN /\ order_items' = order_items \cup {row}
               /\ nextItemId' = nextItemId + 1
               /\ inflight' = [inflight EXCEPT ![w] =
                                  [Done(locals, 201) EXCEPT !.row = row]]
          ELSE /\ UNCHANGED <<order_items, nextItemId>>
               /\ inflight' = [inflight EXCEPT ![w] = Done(locals, 400)]

\* PUT /order-items/:id up to its query for the current item
UpdateItemSelect(w, permission, itemId, body) ==
    /\ Free(w)
    /\ UnchangedHistory
    /\ UNCHANGED projects
    /\ UnchangedParts
    /\ UnchangedOrders
    /\ LET blank == ItemLocals("PUT /order-items/:id", itemId, NULL, body) IN
       inflight' = [inflight EXCEPT ![w] =
            IF ~canEdit(permission) THEN Done(blank, 403)
            ELSE IF SelectItemById(itemId) = {} THEN Done(blank, 404)
            ELSE LET currentItem == CHOOSE i \in SelectItemById(itemId) : TRUE
                     locals == [blank EXCEPT !.projectId = currentItem.project_id,
                                             !.orderId = currentItem.order_id]
                 IN IF ~Has(body, "vendor") THEN [locals EXCEPT !.pc = "update"]
                    ELSE IF Truthy(body, "vendor")
                    THEN [locals EXCEPT !.pc = "selectOrder"]
                    ELSE [locals EXCEPT !.pc = "update", !.orderId = NULL]]

\* ... its lookup of the open order of the vendor
UpdateItemSelectOrder(w) ==
    /\ inflight[w].pc = "selectOrder"
    /\ UnchangedHistory
    /\ UNCHANGED projects
    /\ UnchangedParts
    /\ UnchangedOrders
    /\ LET locals == inflight[w]
           existingOrder == SelectOpenOrder(locals.projectId, locals.body.vendor)
       IN inflight' = [inflight EXCEPT ![w] =
            IF existingOrder # {}
            THEN [locals EXCEPT !.pc = "update",
                                !.orderId = (CHOOSE o \in existingOrder : TRUE).id]
            ELSE [locals EXCEPT !.pc = "insertOrder"]]

\* ... its update of the item: updateData always carries order_id
UpdateItemUpdate(w) ==
    /\ inflight[w].pc = "update"
    /\ UnchangedHistory
    /\ UNCHANGED <<projects, orders, nextOrderId, nextItemId>>
    /\ UnchangedParts
    /\ LET locals == inflight[w]
           body == locals.body
           target == SelectItemById(locals.id)
       IN IF target = {}
          THEN /\ UNCHANGED order_items
               /\ inflight' = [inflight EXCEPT ![w] = Done(locals, 400)]
          ELSE LET current == CHOOSE i \in target : TRUE
                   row == [current EXCEPT
                             !.order_id = locals.orderId,
                             !.quantity = IF Has(body, "quantity")
                                          THEN ClampQuantity(body.quantity) ELSE @,
                             !.description = IF Has(body, "description")
                                             THEN body.description ELSE @,
                             !.unit_cost = IF Has(body, "unitCost")
                                           THEN parsePositiveCurrency(body.unitCost)
                                           ELSE @]
               IN IF ItemsConstraintsHold(row, orders)
                  THEN /\ order_items' = (order_items \ {current}) \cup {row}
                       /\ inflight' = [inflight EXCEPT ![w] =
                             [Done(locals, 200) EXCEPT !.row = row,
                                                       !.was = current.order_id]]
                  ELSE /\ UNCHANGED order_items
                       /\ inflight' = [inflight EXCEPT ![w] = Done(locals, 400)]

\* DELETE /orders/:id up to its query for items
DeleteOrderSelectItems(w, permission, orderId) ==
    /\ Free(w)
    /\ UnchangedHistory
    /\ UNCHANGED projects
    /\ UnchangedParts
    /\ UnchangedOrders
    /\ LET locals == [pc |-> "delete", op |-> "DELETE /orders/:id", id |-> orderId,
                      status |-> 0]
       IN inflight' = [inflight EXCEPT ![w] =
            IF ~canEdit(permission) THEN Done(locals, 403)
            ELSE IF SelectItemsOfOrder(orderId) # {} THEN Done(locals, 400)
            ELSE locals]

\* ... its delete
DeleteOrderDelete(w) ==
    /\ inflight[w].pc = "delete"
    /\ inflight[w].op = "DELETE /orders/:id"
    /\ UnchangedHistory
    /\ UNCHANGED <<projects, nextOrderId, nextItemId>>
    /\ UnchangedParts
    /\ orders' = DeleteOrderRow(inflight[w].id)
    /\ order_items' = ItemsAfterOrderDelete(inflight[w].id)
    /\ inflight' = [inflight EXCEPT ![w] = Done(@, 204)]

Init ==
    /\ projects = ProjectIds
    /\ parts = {}
    /\ orders = {}
    /\ order_items = {}
    /\ nextPartId = 1
    /\ nextOrderId = 1
    /\ nextItemId = 1
    /\ req = [op |-> "none"]
    /\ resp = Reply(0, NO_DATA)
    /\ old = [parts |-> {}, orders |-> {}, order_items |-> {}]
    /\ partLog = <<>>
    /\ inflight = [w \in Workers |-> IDLE]

\* every table within its bound after the step
PartsBounded == nextPartId' <= MaxPartRows + 1
OrdersBounded == nextOrderId' <= MaxOrderRows + 1 /\ nextItemId' <= MaxItemRows + 1

\* the request bodies and parameters the parts specification draws from
PartIdInputs == 1..MaxPartRows
PartBodies ==
    [type : PART_TYPES, name : {"Gear"}]
    \cup [type : PART_TYPES, name : {"Gear"}, parentPartId : PartIdInputs]
BadPartBodies ==
    {[name |-> "Gear"], [type |-> "part"], [type |-> "part", name |-> ""],
     [type |-> "gizmo", name |-> "Gear"]}

NextParts ==
    \/ \E projectId \in ProjectIds, body \in PartBodies :
          CreatePart("editor", projectId, body) /\ PartsBounded
    \/ \E body \in BadPartBodies : CreatePart("admin", 1, body)
    \/ CreatePart("readonly", 1, [type |-> "part", name |-> "Gear"])
    \/ \E permission \in {"readonly", "editor"}, partId \in PartIdInputs :
          DeletePart(permission, partId)

SpecParts == Init /\ [][NextParts]_vars

\* the status of a part: one project, every status as current and as
\* requested status, and strings outside the statuses
MaxStatusParts == 1
StatusInputs == PART_STATUSES \cup {"bogus", ""}
StatusBodies == [status : StatusInputs] \cup {[name |-> "Gear"]}
PartUpdates ==
    [status : StatusInputs] \cup [status : {"", "cnc", "bogus"}, name : {"Gear"}]
    \cup {[priority |-> 7], [name |-> "2\" tube"]}

NextStatus ==
    \/ /\ CreatePart("editor", 1, [type |-> "part", name |-> "Gear"])
       /\ nextPartId' <= MaxStatusParts + 1
    \/ \E partId \in 1..MaxStatusParts, body \in StatusBodies :
          UpdatePartStatus("editor", partId, body)
    \/ \E partId \in 1..MaxStatusParts, body \in PartUpdates :
          UpdatePart("editor", partId, body)

SpecStatus == Init /\ [][NextStatus]_vars

\* the fields of a part that no update may touch: two projects, parts under
\* parents, and bodies of PUT and PATCH that name part_number, type,
\* project_id and parent_part_id under both spellings next to fields that
\* are applied
MaxEditParts == 2
EditPartBodies ==
    [type : PART_TYPES, name : {"Gear"}]
    \cup [type : {"part"}, name : {"Gear"}, parentPartId : 1..MaxEditParts]
EditUpdates ==
    {[name |-> "2\" tube", partNumber |-> 7, type |-> "assembly", projectId |-> 2,
      parentPartId |-> 2],
     [notes |-> "rev B", part_number |-> 7, type |-> "part", project_id |-> 2,
      parent_part_id |-> NULL],
     [partNumber |-> 7, parentPartId |-> NULL]}
EditStatusBodies ==
    {[status |-> "cnc", partNumber |-> 7, type |-> "assembly", projectId |-> 2,
      parentPartId |-> 2],
     [partNumber |-> 7]}

NextEdits ==
    \/ \E projectId \in ProjectIds, body \in EditPartBodies :
          /\ CreatePart("editor", projectId, body)
          /\ nextPartId' <= MaxEditParts + 1
    \/ \E partId \in 1..MaxEditParts, body \in EditUpdates :
          UpdatePart("editor", partId, body)
    \/ \E partId \in 1..MaxEditParts, body \in EditStatusBodies :
          UpdatePartStatus("editor", partId, body)
    \/ \E partId \in 1..MaxEditParts : DeletePart("editor", partId)

SpecEdits == Init /\ [][NextEdits]_vars

\* two creations of parts that run at the same time: one project and another,
\* assemblies, and parts under a parent
RaceCreateBodies ==
    [type : PART_TYPES, name : {"Gear"}]
    \cup [type : {"part"}, name : {"Gear"}, parentPartId : {1}]

NextNumberRace ==
    \/ \E w \in Workers, projectId \in ProjectIds, body \in RaceCreateBodies :
          CreatePartSelect(w, "editor", projectId, body)
    \/ \E w \in Workers : CreatePartSelectParent(w)
    \/ \E w \in Workers : CreatePartInsert(w) /\ PartsBounded

SpecNumberRace == Init /\ [][NextNumberRace]_vars

\* creations, deletions and updates of parts of one project that run at the
\* same time
MaxRaceParts == 2
NextPartsRace ==
    \/ \E w \in Workers, body \in RaceCreateBodies :
          CreatePartSelect(w, "editor", 1, body)
    \/ \E w \in Workers : CreatePartSelectParent(w)
    \/ \E w \in Workers : CreatePartInsert(w) /\ nextPartId' <= MaxRaceParts + 1
    \/ \E w \in Workers, partId \in 1..MaxRaceParts :
          DeletePartSelectChildren(w, "editor", partId)
    \/ \E w \in Workers : DeletePartDelete(w)
    \/ \E partId \in 1..MaxRaceParts :
          UpdatePart("editor", partId,
                     [name |-> "2\" tube", partNumber |-> 7, type |-> "part"])

SpecPartsRace == Init /\ [][NextPartsRace]_vars

\* the dashboard: two projects, parts moved between three statuses, every
\* status and a string outside the statuses as the filter
DashboardQueries == {[x \in {} |-> ""]} \cup [status : PART_STATUSES \cup {"bogus", ""}]

NextDashboard ==
    \/ \E projectId \in ProjectIds :
          /\ CreatePart("editor", projectId, [type |-> "part", name |-> "Gear"])
          /\ PartsBounded
    \/ \E partId \in PartIdInputs, status \in {"cnc", "done", "designing"} :
          UpdatePartStatus("editor", partId, [status |-> status])
    \/ \E partId \in PartIdInputs : DeletePart("editor", partId)
    \/ \E projectId \in ProjectIds, query \in DashboardQueries :
          GetDashboard("readonly", projectId, query)

SpecDashboard == Init /\ [][NextDashboard]_vars

\* the permission gate: every endpoint of parts, orders and order items
\* behind the middleware, with tokens of each permission and tokens that are
\* missing, forged or expired
MaxGateParts == 1
TokenInputs ==
    [present : {TRUE}, signed : {TRUE}, expired : {FALSE}, permission : Permissions]
    \cup {NO_TOKEN,
          [present |-> TRUE, signed |-> FALSE, expired |-> FALSE,
           permission |-> "admin"],
          [present |-> TRUE, signed |-> TRUE, expired |-> TRUE,
           permission |-> "admin"]}

NextGate ==
    \E token \in TokenInputs :
        \/ /\ IF Rejected(token) THEN Unauthorized("POST /projects/:projectId/parts")
              ELSE CreatePart(SessionPermission(token), 1, [type |-> "assembly", name |-> "Gear"])
           /\ nextPartId' <= MaxGateParts + 1
        \/ IF Rejected(token) THEN Unauthorized("PUT /parts/:id")
              ELSE UpdatePart(SessionPermission(token), 1, [name |-> "2\" tube"])
        \/ IF Rejected(token) THEN Unauthorized("PATCH /parts/:id/status")
              ELSE UpdatePartStatus(SessionPermission(token), 1, [status |-> "cnc"])
        \/ \E partId \in 1..MaxGateParts :
              IF Rejected(token) THEN Unauthorized("DELETE /parts/:id")
              ELSE DeletePart(SessionPermission(token), partId)
        \/ /\ IF Rejected(token) THEN Unauthorized("POST /projects/:projectId/order-items")
              ELSE CreateOrderItem(SessionPermission(token), 1, [vendor |-> "Acme"])
           /\ OrdersBounded
        \/ /\ IF Rejected(token) THEN Unauthorized("PUT /order-items/:id")
              ELSE UpdateOrderItem(SessionPermission(token), 1, [vendor |-> "Bolt"])
           /\ OrdersBounded
        \/ IF Rejected(token) THEN Unauthorized("DELETE /order-items/:id")
              ELSE DeleteOrderItem(SessionPermission(token), 1)
        \/ IF Rejected(token) THEN Unauthorized("PUT /orders/:id")
              ELSE UpdateOrder(SessionPermission(token), 1, [status |-> "ordered"])
        \/ \E orderId \in 1..MaxOrderRows :
              IF Rejected(token) THEN Unauthorized("DELETE /orders/:id")
              ELSE DeleteOrder(SessionPermission(token), orderId)
        \/ IF Rejected(token) THEN Unauthorized("GET /projects/:projectId/parts")
              ELSE GetParts(SessionPermission(token), 1)
        \/ IF Rejected(token) THEN Unauthorized("GET /projects/:projectId/orders")
              ELSE GetOrders(SessionPermission(token), 1)
        \/ IF Rejected(token) THEN Unauthorized("GET /projects/:projectId/dashboard")
              ELSE GetDashboard(SessionPermission(token), 1, [status |-> "cnc"])
        \/ IF Rejected(token) THEN Unauthorized("GET /projects/:projectId/orders/stats")
              ELSE GetOrderStats(SessionPermission(token), 1)

SpecGate == Init /\ [][NextGate]_vars

\* the request bodies and parameters the orders specification draws from
VendorInputs == {"", "Acme", "Bolt", LONG_VENDOR}
OrderIdInputs == 1..MaxOrderRows
ItemIdInputs == 1..MaxItemRows
ItemBodies == {[quantity |-> 1]} \cup [quantity : {1}, vendor : VendorInputs]
ItemUpdates == {[quantity |-> 0]} \cup [vendor : VendorInputs]
OrderUpdates == [status : ORDER_STATUSES \cup {"cancelled"}]

NextOrders ==
    \/ \E projectId \in ProjectIds, body \in ItemBodies :
          CreateOrderItem("editor", projectId, body) /\ OrdersBounded
    \/ CreateOrderItem("readonly", 1, [vendor |-> "Acme"])
    \/ \E itemId \in ItemIdInputs, body \in ItemUpdates :
          UpdateOrderItem("editor", itemId, body) /\ OrdersBounded
    \/ UpdateOrderItem("readonly", 1, [vendor |-> "Acme"])
    \/ \E permission \in {"readonly", "editor"}, itemId \in ItemIdInputs :
          DeleteOrderItem(permission, itemId)
    \/ \E orderId \in OrderIdInputs, body \in OrderUpdates :
          UpdateOrder("editor", orderId, body)
    \/ UpdateOrder("readonly", 1, [status |-> "ordered"])
    \/ \E permission \in {"readonly", "editor"}, orderId \in OrderIdInputs :
          DeleteOrder(permission, orderId)

SpecOrders == Init /\ [][NextOrders]_vars

\* one project and one vendor, with room for a third order of that vendor
VendorBounded ==
    nextOrderId' <= MaxVendorOrders + 1 /\ nextItemId' <= MaxItemRows + 1

NextVendor ==
    \/ CreateOrderItem("editor", 1, [vendor |-> "Acme"]) /\ VendorBounded
    \/ \E itemId \in ItemIdInputs :
          UpdateOrderItem("editor", itemId, [vendor |-> "Acme"]) /\ VendorBounded
    \/ \E orderId \in 1..MaxVendorOrders, status \in ORDER_STATUSES :
          UpdateOrder("editor", orderId, [status |-> status])
    \/ \E itemId \in ItemIdInputs : DeleteOrderItem("editor", itemId)
    \/ \E orderId \in 1..MaxVendorOrders : DeleteOrder("editor", orderId)

SpecVendor == Init /\ [][NextVendor]_vars

\* one project; vendors that are absent, null, empty, storable and too long,
\* and descriptions that are absent, storable and too long
ItemPosts ==
    [vendor : {"Acme", LONG_VENDOR, "", NULL_TEXT}]
    \cup {[description |-> "bolts"], [vendor |-> "Acme", description |-> LONG_TEXT]}
ItemPuts ==
    [vendor : {"Acme", "Bolt", LONG_VENDOR, ""}]
    \cup {[description |-> "bolts"], [vendor |-> "Bolt", description |-> LONG_TEXT]}

NextItems ==
    \/ \E body \in ItemPosts : CreateOrderItem("editor", 1, body) /\ OrdersBounded
    \/ \E itemId \in ItemIdInputs, body \in ItemPuts :
          UpdateOrderItem("editor", itemId, body) /\ OrdersBounded
    \/ \E orderId \in OrderIdInputs :
          UpdateOrder("editor", orderId, [status |-> "ordered"])
    \/ \E itemId \in ItemIdInputs : DeleteOrderItem("editor", itemId)
    \/ \E orderId \in OrderIdInputs : DeleteOrder("editor", orderId)

SpecItems == Init /\ [][NextItems]_vars

\* two creations of order items that run at the same time, in one project
\* and another, for one vendor and another
RaceItemBodies == [vendor : {"Acme", "Bolt"}]

NextOrderRace ==
    \/ \E w \in Workers, projectId \in ProjectIds, body \in RaceItemBodies :
          CreateItemSelectOrder(w, "editor", projectId, body)
    \/ \E w \in Workers : ItemInsertOrder(w) /\ OrdersBounded
    \/ \E w \in Workers : CreateItemInsert(w) /\ OrdersBounded

SpecOrderRace == Init /\ [][NextOrderRace]_vars

\* creations and updates of order items and deletions of orders that run at
\* the same time, in two projects: items posted with and without vendor,
\* and saved without vendor and with a vendor
RacePosts == {[vendor |-> "Bolt"], [quantity |-> 1]}
RacePuts == {[quantity |-> 3], [vendor |-> "Bolt"]}

NextItemRace ==
    \/ \E w \in Workers, projectId \in ProjectIds, body \in RacePosts :
          CreateItemSelectOrder(w, "editor", projectId, body)
    \/ \E w \in Workers : ItemInsertOrder(w) /\ OrdersBounded
    \/ \E w \in Workers : CreateItemInsert(w) /\ OrdersBounded
    \/ \E w \in Workers, itemId \in ItemIdInputs, body \in RacePuts :
          UpdateItemSelect(w, "editor", itemId, body)
    \/ \E w \in Workers : UpdateItemSelectOrder(w)
    \/ \E w \in Workers : UpdateItemUpdate(w)
    \/ \E w \in Workers, orderId \in OrderIdInputs :
          DeleteOrderSelectItems(w, "editor", orderId)
    \/ \E w \in Workers : DeleteOrderDelete(w)

SpecItemRace == Init /\ [][NextItemRace]_vars

\* the statistics of orders: items of 2 x 0.50 posted for vendors, one of
\* them named like an inherited key; orders committed, taxed, shipped, paid
\* for and reimbursed; amounts in cents
StatsItemBodies ==
    [vendor : {"Acme", "constructor"}, quantity : {2}, unitCost : {50}]
    \cup {[unitCost |-> 50]}
StatsOrderUpdates ==
    {[status |-> "ordered"],
     [status |-> "received", taxCost |-> 5, shippingCost |-> 10],
     [paidForBy |-> "Ann", reimbursed |-> TRUE],
     [paidForBy |-> "constructor"],
     [paidForBy |-> ""]}

NextStats ==
    \/ \E body \in StatsItemBodies :
          CreateOrderItem("editor", 1, body) /\ OrdersBounded
    \/ /\ CreateOrderItem("editor", 2, [vendor |-> "Acme", quantity |-> 2,
                                         unitCost |-> 50])
       /\ OrdersBounded
    \/ \E orderId \in OrderIdInputs, body \in StatsOrderUpdates :
          UpdateOrder("editor", orderId, body)
    \/ \E projectId \in ProjectIds : GetOrderStats("readonly", projectId)

SpecStats == Init /\ [][NextStats]_vars

\* the deletion of a project that has parts with children, orders with items
\* and unclassified items, next to another project
ProjectPartBodies ==
    [type : PART_TYPES, name : {"Gear"}]
    \cup [type : {"part"}, name : {"Gear"}, parentPartId : 1..2]

NextProjects ==
    \/ \E projectId \in ProjectIds, body \in ProjectPartBodies :
          CreatePart("editor", projectId, body) /\ PartsBounded
    \/ \E projectId \in ProjectIds, body \in {[vendor |-> "Acme"], [quantity |-> 1]} :
          CreateOrderItem("editor", projectId, body) /\ OrdersBounded
    \/ \E permission \in {"readonly", "editor"}, projectId \in ProjectIds :
          DeleteProject(permission, projectId)

SpecProjects == Init /\ [][NextProjects]_vars

(* ================================================================== *)
(* Part numbering and the deletion guard of parts                      *)
(* ================================================================== *)
IsCreatePart == req.op = "POST /projects/:projectId/parts"
PartCreated == IsCreatePart /\ resp.status = 201
ParentOf(body) == IF Has(body, "parentPartId") THEN body.parentPartId ELSE NULL
NumbersOf(rows) == {r.part_number : r \in rows}
PartIds(rows) == {r.id : r \in rows}

\* the assemblies project p held when the request arrived
OldAssemblies(p) == {r \in old.parts : r.project_id = p /\ r.type = "assembly"}
\* the assemblies of project p inserted before the request
LoggedAssemblies(p) ==
    {partLog[k] : k \in {j \in 1..(Len(partLog) - 1) :
        partLog[j].project_id = p /\ partLog[j].type = "assembly"}}

\* C5: an assembly created in project p is numbered (maximum number of the
\* assemblies p holds) + 100, or 100 when p holds none; while no assembly of
\* p has been deleted, the n-th assembly of p is numbered 100 * n.
AssemblyNumberIsMaxPlus100 ==
    (PartCreated /\ req.body.type = "assembly") =>
        LET existing == OldAssemblies(req.projectId) IN
        /\ resp.data \in parts
        /\ resp.data.type = "assembly" /\ resp.data.project_id = req.projectId
        /\ resp.data.part_number =
              IF existing = {} THEN 100 ELSE Max(NumbersOf(existing)) + 100
        /\ PartIds(LoggedAssemblies(req.projectId)) = PartIds(existing) =>
              resp.data.part_number = 100 * (Cardinality(existing) + 1)

\* C5 witness: an assembly numbered 200 was deleted and the next assembly of
\* the project is numbered 200 again, 100 above the largest that remains
AssemblyAfterDeletion ==
    /\ PartCreated /\ req.body.type = "assembly"
    /\ resp.data.part_number = 200
    /\ \E r \in LoggedAssemblies(req.projectId) :
          r.part_number = 200 /\ r.id \notin PartIds(old.parts)
    /\ \E r \in OldAssemblies(req.projectId) : r.part_number = 100

\* the parentless type=part rows project p held when the request arrived
OldRootParts(p) ==
    {r \in old.parts : r.project_id = p /\ r.type = "part" /\ r.parent_part_id = NULL}

\* C6: a part created without parentPartId is numbered (maximum number of the
\* parentless type=part rows of the project) + 1, or 1 when there is none.
RootPartNumberIsMaxPlus1 ==
    (PartCreated /\ req.body.type = "part" /\ ParentOf(req.body) = NULL) =>
        LET existing == OldRootParts(req.projectId) IN
        resp.data.part_number =
            IF existing = {} THEN 1 ELSE Max(NumbersOf(existing)) + 1

\* the type=part rows that had the given parent when the request arrived
OldChildParts(parentId) ==
    {r \in old.parts : r.parent_part_id = parentId /\ r.type = "part"}

\* C7: a part created under an existing parent of number K is numbered K + 1
\* when the parent has no type=part child, else (maximum number of the
\* type=part rows with that parent) + 1.
ChildPartNumberIsSiblingMaxPlus1 ==
    (PartCreated /\ req.body.type = "part" /\ ParentOf(req.body) # NULL) =>
        LET parent == CHOOSE r \in old.parts : r.id = ParentOf(req.body)
            siblings == OldChildParts(parent.id)
        IN resp.data.part_number =
              IF siblings = {} THEN parent.part_number + 1
              ELSE Max(NumbersOf(siblings)) + 1

\* C8: no two rows of one project and one type have the same part_number.
PartNumberUniquePerProjectAndType ==
    \A r1, r2 \in parts :
        (r1.project_id = r2.project_id /\ r1.type = r2.type
            /\ r1.part_number = r2.part_number) => r1 = r2

IsDeletePart == req.op = "DELETE /parts/:id" /\ canEdit(req.permission)

\* C9: DELETE /parts/{id} is rejected and changes no row while some part has
\* parent_part_id = id; with no such part it succeeds and removes exactly
\* the part of that id.
DeletePartGuardedByChildren ==
    IsDeletePart =>
        IF \E r \in old.parts : r.parent_part_id = req.id
        THEN resp.status = 400 /\ parts = old.parts
        ELSE resp.status = 204 /\ parts = {r \in old.parts : r.id # req.id}

\* C9 witness: the deletion of a part that has a child is rejected
DeletePartRejected ==
    /\ IsDeletePart
    /\ \E r \in old.parts : r.id = req.id
    /\ \E r \in old.parts : r.parent_part_id = req.id
    /\ resp.status = 400

(* ================================================================== *)
(* Routing of order items to orders, and the deletion guard of orders  *)
(* ================================================================== *)
IsCreateItem ==
    req.op = "POST /projects/:projectId/order-items" /\ canEdit(req.permission)
\* the request names a non-empty vendor
WithVendor == IsCreateItem /\ Truthy(req.body, "vendor")
OrdersOf(table, p, vendor) ==
    {o \in table : o.project_id = p /\ o.vendor_name = vendor}
OpenOrdersOf(table, p, vendor) ==
    {o \in OrdersOf(table, p, vendor) : o.status = "open"}
OrderIds(table) == {o.id : o \in table}
ItemsOf(table, orderId) == {i \in table : i.order_id = orderId}

\* C1: an item posted with a non-empty vendor V while the project has no
\* open V order creates exactly one order (project, V, open, the other
\* columns at their defaults) and is stored with that order's id.
ItemCreationProvisionsOrder ==
    (WithVendor /\ OpenOrdersOf(old.orders, req.projectId, req.body.vendor) = {}) =>
        /\ resp.status = 201
        /\ resp.data \in order_items
        /\ \E o \in orders :
              /\ o.id \notin OrderIds(old.orders)
              /\ orders = old.orders \cup {o}
              /\ o = NewOrderRow(o.id, req.projectId, req.body.vendor)
              /\ resp.data.order_id = o.id

\* C2: an item posted with vendor V while the project has an open V order
\* is attached to an open V order that existed, and no order is created.
ItemCreationReusesOpenOrder ==
    (WithVendor /\ OpenOrdersOf(old.orders, req.projectId, req.body.vendor) # {}) =>
        /\ resp.status = 201
        /\ resp.data \in order_items
        /\ orders = old.orders
        /\ resp.data.order_id \in
              OrderIds(OpenOrdersOf(old.orders, req.projectId, req.body.vendor))

\* C3: every (project, vendor_name) pair has at most one order with status open.
AtMostOneOpenOrderPerVendor ==
    \A o1, o2 \in orders :
        (o1.project_id = o2.project_id /\ o1.vendor_name = o2.vendor_name
            /\ o1.status = "open" /\ o2.status = "open") => o1 = o2

\* the request names vendor V of which the project holds exactly one order,
\* and that order is ordered or received
OnlyOrderCommitted ==
    /\ WithVendor
    /\ Cardinality(OrdersOf(old.orders, req.projectId, req.body.vendor)) = 1
    /\ \A o \in OrdersOf(old.orders, req.projectId, req.body.vendor) :
          o.status \in {"ordered", "received"}

\* C4: when the only V order of the project is ordered or received, an item
\* posted with vendor V creates a new open V order and is attached to it;
\* the ordered or received order keeps its row and its items.
NewOrderAfterCommitted ==
    OnlyOrderCommitted =>
        /\ resp.status = 201
        /\ resp.data \in order_items
        /\ \E o \in orders :
              /\ o.id \notin OrderIds(old.orders)
              /\ orders = old.orders \cup {o}
              /\ o.status = "open" /\ o.vendor_name = req.body.vendor
              /\ o.project_id = req.projectId
              /\ resp.data.order_id = o.id
        /\ \A c \in OrdersOf(old.orders, req.projectId, req.body.vendor) :
              /\ resp.data.order_id # c.id
              /\ ItemsOf(order_items, c.id) = ItemsOf(old.order_items, c.id)

\* C4 witness: the ordered order holds an item, and the posted item went to
\* another order
ItemPostedAfterOrderCommitted ==
    /\ OnlyOrderCommitted
    /\ resp.status = 201
    /\ \E c \in OrdersOf(old.orders, req.projectId, req.body.vendor) :
          /\ c.status = "ordered"
          /\ ItemsOf(old.order_items, c.id) # {}
          /\ resp.data.order_id \notin {NULL, c.id}

IsDeleteOrder == req.op = "DELETE /orders/:id" /\ canEdit(req.permission)

\* C10: DELETE /orders/{id} is rejected and changes neither table while an
\* order item has order_id = id; with no such item it succeeds, removes the
\* order of that id and leaves the items as they were.
DeleteOrderGuardedByItems ==
    IsDeleteOrder =>
        IF ItemsOf(old.order_items, req.id) # {}
        THEN /\ resp.status = 400
             /\ orders = old.orders /\ order_items = old.order_items
        ELSE /\ resp.status = 204
             /\ orders = {o \in old.orders : o.id # req.id}
             /\ order_items = old.order_items

\* C10 witness: the deletion of an order that holds an item is rejected
DeleteOrderRejected ==
    /\ IsDeleteOrder
    /\ req.id \in OrderIds(old.orders)
    /\ ItemsOf(old.order_items, req.id) # {}
    /\ resp.status = 400

(* ================================================================== *)
(* Failed requests, reassignment of an item, and items without vendor  *)
(* ================================================================== *)
IsUpdateItem == req.op = "PUT /order-items/:id" /\ canEdit(req.permission)
IsItemWrite == IsCreateItem \/ IsUpdateItem
\* the item the request is about, as it was when the request arrived
OldItem == CHOOSE i \in old.order_items : i.id = req.id
\* the project whose orders the request looks up
RoutedProject == IF IsCreateItem THEN req.projectId ELSE OldItem.project_id
\* the request names a vendor of which the project had no single open order,
\* so that the handler went on to insert one
OrderAutoCreated ==
    /\ IsItemWrite /\ Truthy(req.body, "vendor")
    /\ IsUpdateItem => \E i \in old.order_items : i.id = req.id
    /\ Cardinality(OpenOrdersOf(old.orders, RoutedProject, req.body.vendor)) # 1

\* C11: a mutating request that ends in an error response has changed no
\* table: a failed POST or PUT of an order item leaves no order it created
\* behind, and when the insertion of the order fails the item is not stored
\* (POST) or changed (PUT).
FailedRequestChangesNothing ==
    /\ (req.op # "none" /\ resp.status >= 400) =>
           (parts = old.parts /\ orders = old.orders
               /\ order_items = old.order_items)
    /\ (OrderAutoCreated /\ orders = old.orders) =>
           (resp.status >= 400 /\ order_items = old.order_items)

\* the item of the request as the table holds it now
ItemNow == CHOOSE i \in order_items : i.id = req.id
\* PUT /order-items/{id} of an item that exists, with a non-empty vendor
IsReassignment ==
    /\ IsUpdateItem /\ Truthy(req.body, "vendor")
    /\ \E i \in old.order_items : i.id = req.id

\* C12: PUT /order-items/{id} with a non-empty vendor W sets the item's
\* order_id to the open W order of the item's project, which is created when
\* none is open; every order that existed, the item's previous order
\* included, keeps its row, and every other item is unchanged.
ItemReassignedToOpenOrder ==
    IsReassignment =>
        LET p == OldItem.project_id
            wasOpen == OpenOrdersOf(old.orders, p, req.body.vendor)
        IN /\ resp.status = 200
           /\ \E i \in order_items : i.id = req.id
           /\ ItemNow.order_id \in OrderIds(OpenOrdersOf(orders, p, req.body.vendor))
           /\ IF wasOpen # {}
              THEN orders = old.orders /\ ItemNow.order_id \in OrderIds(wasOpen)
              ELSE \E o \in orders :
                      /\ o.id \notin OrderIds(old.orders)
                      /\ orders = old.orders \cup {o}
                      /\ ItemNow.order_id = o.id
           /\ \A i \in old.order_items : i.id # req.id => i \in order_items

\* C13: an item posted with a vendor that is absent, null or empty is stored
\* with order_id null and no order is created; PUT /order-items/{id} with an
\* empty vendor sets the item's order_id to null and creates no order.
NoVendorMeansUnclassified ==
    /\ (IsCreateItem /\ (~Has(req.body, "vendor")
                            \/ req.body.vendor \in {"", NULL_TEXT})) =>
           /\ resp.status = 201
           /\ resp.data.order_id = NULL
           /\ order_items = old.order_items \cup {resp.data}
           /\ resp.data.id \notin {i.id : i \in old.order_items}
           /\ orders = old.orders
    /\ (IsUpdateItem /\ Has(req.body, "vendor") /\ req.body.vendor = ""
           /\ \E i \in old.order_items : i.id = req.id) =>
           /\ resp.status = 200
           /\ ItemNow.order_id = NULL
           /\ order_items = (old.order_items \ {OldItem}) \cup {ItemNow}
           /\ orders = old.orders

\* C13 witness: an item that was attached to an order is detached by a PUT
\* with an empty vendor, after an item was posted with a null vendor
ItemDetachedByEmptyVendor ==
    /\ IsUpdateItem /\ Has(req.body, "vendor") /\ req.body.vendor = ""
    /\ \E i \in old.order_items : i.id = req.id /\ i.order_id # NULL
    /\ ItemNow.order_id = NULL
    /\ \E i \in order_items : i.id # req.id /\ i.order_id = NULL

(* ================================================================== *)
(* The hierarchy of parts and the status of a part                     *)
(* ================================================================== *)
\* C14: every part whose parent_part_id is not null has a parent part, and
\* that parent belongs to the part's own project.
ParentInSameProject ==
    \A r \in parts :
        r.parent_part_id # NULL =>
            \E q \in parts : q.id = r.parent_part_id /\ q.project_id = r.project_id

IsStatusWrite ==
    /\ req.op \in {"PATCH /parts/:id/status", "PUT /parts/:id"}
    /\ canEdit(req.permission)
    /\ \E r \in old.parts : r.id = req.id
    /\ Has(req.body, "status")
OldPart == CHOOSE r \in old.parts : r.id = req.id
PartNow == CHOOSE r \in parts : r.id = req.id

\* C15 as stated: a requested status among the 20 values succeeds and becomes
\* the part's status whatever the current status; every requested string
\* outside the 20 values is rejected and the status is unchanged; every
\* part's status is one of the 20 values.
StatusSetByMembershipOnly ==
    /\ IsStatusWrite =>
           IF req.body.status \in PART_STATUSES
           THEN /\ resp.status = 200
                /\ PartNow.status = req.body.status
                /\ parts = (old.parts \ {OldPart}) \cup {PartNow}
           ELSE resp.status = 400 /\ parts = old.parts
    /\ \A r \in parts : r.status \in PART_STATUSES

\* C15 amended: as stated, except that PUT /parts/{id} takes an empty status
\* as no status: the status is unchanged and the request is not rejected on
\* its account.
StatusSetByMembershipOrIgnored ==
    /\ IsStatusWrite =>
           IF req.body.status \in PART_STATUSES
           THEN /\ resp.status = 200
                /\ PartNow.status = req.body.status
                /\ parts = (old.parts \ {OldPart}) \cup {PartNow}
           ELSE IF req.body.status = "" /\ req.op = "PUT /parts/:id"
           THEN /\ PartNow.status = OldPart.status
                /\ Truthy(req.body, "name") =>
                      (resp.status = 200 /\ PartNow.name = EscapeQuotes(req.body.name))
           ELSE resp.status = 400 /\ parts = old.parts
    /\ \A r \in parts : r.status \in PART_STATUSES

\* C15 witness: a part that was done is set back to designing
StatusSetBackwards ==
    /\ IsStatusWrite /\ req.body.status = "designing"
    /\ OldPart.status = "done"
    /\ resp.status = 200 /\ PartNow.status = "designing"

(* ================================================================== *)
(* The dashboard                                                       *)
(* ================================================================== *)
IsDashboard == req.op = "GET /projects/:projectId/dashboard"
\* the query names one of the 20 statuses
FilteredByStatus == Truthy(req.query, "status") /\ req.query.status \in PART_STATUSES
\* the parts listed under status s in the response
ListedUnder(s) == BagToSet(resp.data.partsByStatus[s])
ListedParts == UNION {ListedUnder(s) : s \in PART_STATUSES}

\* C20: the dashboard of project p lists every part of p that is not done
\* exactly once, under its own status, and no part that is done; totalParts
\* is the number of parts returned; with ?status=s, s among the 20 values,
\* only the parts of status s are listed.
DashboardGroupsByStatus ==
    IsDashboard =>
        /\ resp.status = 200
        /\ DOMAIN resp.data.partsByStatus = PART_STATUSES
        /\ \A s \in PART_STATUSES : \A r \in ListedUnder(s) :
              /\ r \in parts /\ r.project_id = req.projectId
              /\ r.status = s /\ s # "done"
              /\ CopiesIn(r, resp.data.partsByStatus[s]) = 1
        /\ ListedParts =
              {r \in parts :
                  /\ r.project_id = req.projectId
                  /\ r.status # "done"
                  /\ (FilteredByStatus => r.status = req.query.status)}
        /\ resp.data.totalParts = Cardinality(ListedParts)

\* C20 witness: the unfiltered dashboard of a project that has a part that is
\* done and a part ready for CNC, while the other project has a part too
DashboardLeavesOutDone ==
    /\ IsDashboard /\ ~Has(req.query, "status")
    /\ \E r \in parts : r.project_id = req.projectId /\ r.status = "done"
    /\ \E r \in ListedUnder("cnc") : r.project_id = req.projectId
    /\ \E r \in parts : r.project_id # req.projectId
    /\ resp.data.totalParts = 1

(* ================================================================== *)
(* The permission gate                                                 *)
(* ================================================================== *)
MutatingOps ==
    {"POST /projects/:projectId/parts", "PUT /parts/:id", "PATCH /parts/:id/status",
     "DELETE /parts/:id", "POST /projects/:projectId/order-items",
     "PUT /order-items/:id", "DELETE /order-items/:id", "PUT /orders/:id",
     "DELETE /orders/:id"}
ReadOps ==
    {"GET /projects/:projectId/parts", "GET /projects/:projectId/orders",
     "GET /projects/:projectId/dashboard", "GET /projects/:projectId/orders/stats"}

\* C16: a request with permission readonly to a mutating endpoint of parts,
\* orders or order items is answered 403 and changes no table; with
\* permission editor or admin it is not refused; the GET endpoints of parts,
\* orders, dashboard and stats are served to every verified session.
ReadonlyCannotMutate ==
    /\ (req.op \in MutatingOps /\ req.permission = "readonly") =>
           /\ resp.status = 403
           /\ parts = old.parts /\ orders = old.orders
           /\ order_items = old.order_items
    /\ (req.op \in MutatingOps /\ req.permission \in {"editor", "admin"}) =>
           resp.status \notin {401, 403}
    /\ (req.op \in ReadOps /\ req.permission \in Permissions) =>
           resp.status = 200

\* C16 witness: a readonly session is refused the deletion of a part that
\* exists and has no child, after an editor created it
ReadonlyDeleteRefused ==
    /\ req.op = "DELETE /parts/:id" /\ req.permission = "readonly"
    /\ \E r \in parts : r.id = req.id
    /\ ~\E r \in parts : r.parent_part_id = req.id
    /\ resp.status = 403

(* ================================================================== *)
(* The statistics of orders                                            *)
(* ================================================================== *)
IsStats == req.op = "GET /projects/:projectId/orders/stats"
\* the orders of the project of the request that are not open
CommittedOrders == {o \in orders : o.project_id = req.projectId /\ o.status # "open"}
\* the total of an order: its items' quantity * unit_cost, tax and shipping
TotalOf(order) ==
    LET items == ItemsOf(order_items, order.id) IN
    SumOf([i \in items |-> i.quantity * i.unit_cost], items)
        + order.tax_cost + order.shipping_cost
TotalOver(rows) == SumOf([o \in rows |-> TotalOf(o)], rows)

\* C17: byVendor has an entry for exactly the vendors of the project's orders
\* that are not open; the entry's totalCost is the sum of the totals of those
\* orders, and its orders are exactly those orders, each with its own total.
StatsByVendorSumsCommittedOrders ==
    IsStats =>
        /\ resp.status = 200
        /\ DOMAIN resp.data.byVendor = {o.vendor_name : o \in CommittedOrders}
        /\ \A v \in DOMAIN resp.data.byVendor :
              LET mine == {o \in CommittedOrders : o.vendor_name = v}
                  entry == resp.data.byVendor[v]
              IN /\ entry.totalCost = TotalOver(mine)
                 /\ {x.id : x \in entry.orders} = OrderIds(mine)
                 /\ Cardinality(entry.orders) = Cardinality(mine)
                 /\ \A x \in entry.orders : \E o \in mine :
                       /\ o.id = x.id /\ x.totalCost = TotalOf(o)
                       /\ x.status = o.status /\ x.vendor_name = v

\* the purchaser key of an order
PurchaserKey(o) == IF o.paid_for_by \in {NULL_TEXT, ""} THEN "Unknown" ELSE o.paid_for_by

\* C18: byPurchaser has an entry for exactly the purchaser keys of the
\* project's orders that are not open; the entry's reimbursed is the sum of
\* the totals of its orders whose flag is true and its outstanding the sum of
\* the totals of those whose flag is false, so that every such order is
\* counted in exactly one bucket of exactly one purchaser.
StatsByPurchaserSplitsReimbursed ==
    (IsStats /\ resp.status = 200) =>
        /\ DOMAIN resp.data.byPurchaser = {PurchaserKey(o) : o \in CommittedOrders}
        /\ \A p \in DOMAIN resp.data.byPurchaser :
              LET mine == {o \in CommittedOrders : PurchaserKey(o) = p}
                  entry == resp.data.byPurchaser[p]
              IN /\ entry.reimbursed = TotalOver({o \in mine : o.reimbursed})
                 /\ entry.outstanding = TotalOver({o \in mine : ~o.reimbursed})

(* ================================================================== *)
(* The deletion of a project                                           *)
(* ================================================================== *)
IsDeleteProject == req.op = "DELETE /projects/:id" /\ canEdit(req.permission)
InProject(table, p) == {r \in table : r.project_id = p}
OutsideProject(table, p) == {r \in table : r.project_id # p}

\* C19: DELETE /projects/{id} removes every part, order and order item of
\* the project, parts with children and orders with items included, and
\* changes no part, order or order item of another project.
ProjectDeleteCascades ==
    IsDeleteProject =>
        /\ resp.status = 204
        /\ InProject(parts, req.id) = {}
        /\ InProject(orders, req.id) = {}
        /\ InProject(order_items, req.id) = {}
        /\ parts = OutsideProject(old.parts, req.id)
        /\ orders = OutsideProject(old.orders, req.id)
        /\ order_items = OutsideProject(old.order_items, req.id)

(* ================================================================== *)
(* A parentPartId that matches no part                                 *)
(* ================================================================== *)
\* a valid request of an editor for a type=part row under a parent id that
\* no row of parts had when the request arrived
IsCreateUnderMissingParent ==
    /\ IsCreatePart /\ canEdit(req.permission)
    /\ Truthy(req.body, "type") /\ Truthy(req.body, "name")
    /\ req.body.type = "part"
    /\ ParentOf(req.body) # NULL
    /\ ParentOf(req.body) \notin PartIds(old.parts)

\* C24 as stated: a type=part creation whose parentPartId matches no part
\* stores a part numbered as a parentless part: (maximum number of the
\* parentless type=part rows of the project) + 1, or 1 when there is none.
MissingParentNumberedAsParentless ==
    IsCreateUnderMissingParent =>
        LET existing == OldRootParts(req.projectId) IN
        /\ resp.status = 201
        /\ resp.data \in parts
        /\ resp.data.part_number =
              IF existing = {} THEN 1 ELSE Max(NumbersOf(existing)) + 1

\* C24: a type=part creation whose parentPartId matches no part is answered
\* 400 and stores no part: the number the handler computed (1) is never used,
\* the insert fails on the foreign key of parent_part_id.
MissingParentRejected ==
    IsCreateUnderMissingParent =>
        /\ resp.status = 400
        /\ parts = old.parts

\* C24 witness: such a request arrived in a project that holds a parentless
\* part
MissingParentRequested ==
    /\ IsCreateUnderMissingParent
    /\ OldRootParts(req.projectId) # {}
    /\ resp.status = 400

(* ================================================================== *)
(* The order of the numbers handed out                                 *)
(* ================================================================== *)
\* rows i and j of the log of insertions are numbered in one scope: two
\* assemblies of one project, or two type=part rows of one project under one
\* parent
SameScope(i, j) ==
    /\ partLog[i].type = partLog[j].type
    /\ partLog[i].project_id = partLog[j].project_id
    /\ partLog[i].type = "part" =>
          /\ partLog[i].parent_part_id # NULL
          /\ partLog[i].parent_part_id = partLog[j].parent_part_id

\* C25 as stated: the assemblies created in one project, and the type=part
\* rows created under one parent, are numbered in strictly increasing order
\* of creation, whatever was deleted in between.
NumbersStrictlyIncreasing ==
    \A i, j \in 1..Len(partLog) :
        (i < j /\ SameScope(i, j)) =>
            partLog[i].part_number < partLog[j].part_number

\* the type=part rows of project p that had the given parent when the
\* request arrived
OldSiblings(p, parentId) ==
    {r \in old.parts : r.project_id = p /\ r.type = "part"
                        /\ r.parent_part_id = parentId}

\* C25: a created assembly is numbered above every assembly its project
\* holds at that time, and a type=part row created under a parent above every
\* type=part row of the request's project that has this parent at that time;
\* the number of a deleted row can be handed out again.
NumberAboveExistingOfScope ==
    PartCreated =>
        IF req.body.type = "assembly"
        THEN \A r \in OldAssemblies(req.projectId) :
                 r.part_number < resp.data.part_number
        ELSE ParentOf(req.body) # NULL =>
                 \A r \in OldSiblings(req.projectId, ParentOf(req.body)) :
                     r.part_number < resp.data.part_number

\* C25 witness: in a project that holds an assembly, an assembly is created
\* with the number of an assembly that was deleted before
NumberHandedOutAgain ==
    /\ PartCreated /\ req.body.type = "assembly"
    /\ OldAssemblies(req.projectId) # {}
    /\ \E k \in 1..(Len(partLog) - 1) :
          /\ partLog[k].type = "assembly"
          /\ partLog[k].project_id = req.projectId
          /\ partLog[k].id \notin PartIds(old.parts)
          /\ partLog[k].part_number = resp.data.part_number

(* ================================================================== *)
(* The fields of a part that are fixed at creation                     *)
(* ================================================================== *)
IsPartUpdate == req.op \in {"PUT /parts/:id", "PATCH /parts/:id/status"}
IsDeletion ==
    req.op \in {"DELETE /parts/:id", "DELETE /projects/:id", "DELETE /orders/:id",
                "DELETE /order-items/:id"}

\* rows r and q are one part with the same part_number, type, project_id and
\* parent_part_id
SameIdentity(r, q) ==
    /\ q.id = r.id
    /\ q.part_number = r.part_number
    /\ q.type = r.type
    /\ q.project_id = r.project_id
    /\ q.parent_part_id = r.parent_part_id

\* C30: a request that is not a deletion leaves part_number, type,
\* project_id and parent_part_id of every part it found as they were; PUT
\* /parts/{id} and PATCH /parts/{id}/status do so for every body.
PartIdentityFrozen ==
    ~IsDeletion =>
        \A r \in old.parts : \E q \in parts : SameIdentity(r, q)

\* C30 witness: a PUT whose body asks for another part_number, type, project
\* and parent is answered 200 and has renamed a part that has a parent
PartUpdatedWithForeignKeys ==
    /\ req.op = "PUT /parts/:id" /\ resp.status = 200
    /\ Has(req.body, "partNumber") /\ Has(req.body, "parentPartId")
    /\ Has(req.body, "type") /\ Has(req.body, "projectId")
    /\ resp.data \in parts /\ resp.data \notin old.parts
    /\ resp.data.parent_part_id # NULL
    /\ resp.data.parent_part_id # req.body.parentPartId
    /\ resp.data.part_number # req.body.partNumber
    /\ resp.data.type # req.body.type
    /\ resp.data.project_id # req.body.projectId

(* ================================================================== *)
(* An item saved with the vendor of its own order                      *)
(* ================================================================== *)
\* the order the item of the request was attached to when the request arrived
OldOrderOfItem == CHOOSE o \in old.orders : o.id = OldItem.order_id

\* PUT /order-items/{id} of an item that is attached to an order, with the
\* vendor_name of that order as vendor (what the order detail page sends with
\* every item it saves)
IsResubmission ==
    /\ IsUpdateItem /\ Has(req.body, "vendor")
    /\ \E i \in old.order_items : i.id = req.id
    /\ OldItem.order_id \in OrderIds(old.orders)
    /\ req.body.vendor = OldOrderOfItem.vendor_name

\* C28: a PUT /order-items/{id} that resubmits the vendor_name of the item's
\* current order leaves the item's order_id as it was and creates no order,
\* whether that order is open, ordered or received.
ResubmittedVendorKeepsOrder ==
    IsResubmission =>
        /\ ItemNow.order_id = OldItem.order_id
        /\ orders = old.orders

(* ================================================================== *)
(* Requests that run at the same time                                  *)
(* ================================================================== *)
IsCreatedPart(w) ==
    /\ inflight[w].pc = "done"
    /\ inflight[w].op = "POST /projects/:projectId/parts"
\* workers a and b created in one scope: two assemblies of one project, or
\* two parts of one project under one parent that exists
SameNumberingScope(a, b) ==
    /\ inflight[a].projectId = inflight[b].projectId
    /\ inflight[a].body.type = inflight[b].body.type
    /\ inflight[a].parentId = inflight[b].parentId
    /\ inflight[a].body.type = "part" => inflight[a].parentId \in inflight[a].seen
\* both read the table before either inserted: they saw the same rows
ReadTogether(a, b) == inflight[a].seen = inflight[b].seen

\* C21: two creations in one scope (type=part under the same parent, or
\* assemblies of one project) that both read the current maximum before
\* either inserts both succeed and store the same part_number: no
\* constraint refuses the second row.
RacingCreationsShareNumber ==
    \A a, b \in Workers :
        (a # b /\ IsCreatedPart(a) /\ IsCreatedPart(b)
              /\ SameNumberingScope(a, b) /\ ReadTogether(a, b)) =>
            /\ inflight[a].status = 201 /\ inflight[b].status = 201
            /\ inflight[a].row \in parts /\ inflight[b].row \in parts
            /\ inflight[a].row.id # inflight[b].row.id
            /\ inflight[a].row.part_number = inflight[b].row.part_number

\* C21 witness: two rows of type part of one project under one parent with
\* the same part_number, stored by two creations that ran at the same time
DuplicateNumberStored ==
    \E a, b \in Workers :
        /\ a # b /\ IsCreatedPart(a) /\ IsCreatedPart(b)
        /\ SameNumberingScope(a, b) /\ ReadTogether(a, b)
        /\ inflight[a].body.type = "part"
        /\ \E r1, r2 \in parts :
              /\ r1 = inflight[a].row /\ r2 = inflight[b].row
              /\ r1.id # r2.id
              /\ r1.project_id = r2.project_id /\ r1.type = r2.type
              /\ r1.parent_part_id = r2.parent_part_id
              /\ r1.part_number = r2.part_number

\* C23: a part is never removed while another part has it as parent: every
\* part that was created under a parent and still exists has that parent,
\* and the parent exists, also when a deletion of the parent runs at the
\* same time as the creation of the child.
ChildKeepsParent ==
    \A k \in 1..Len(partLog) :
        partLog[k].parent_part_id # NULL =>
            \A q \in parts :
                q.id = partLog[k].id =>
                    /\ q.parent_part_id = partLog[k].parent_part_id
                    /\ \E p \in parts : p.id = q.parent_part_id

\* C26: the part_number of every row of type assembly is a positive
\* multiple of 100, under every interleaving of the statements of
\* creations, updates and deletions.
AssemblyNumberMultipleOf100 ==
    \A r \in parts :
        r.type = "assembly" => r.part_number > 0 /\ r.part_number % 100 = 0

\* C26 witness: two assemblies of one project that were created at the same
\* time and are both numbered 100, one of them updated since
AssembliesAfterRaceAndUpdate ==
    \E r1, r2 \in parts :
        /\ r1.type = "assembly" /\ r2.type = "assembly"
        /\ r1.project_id = r2.project_id
        /\ r1.id # r2.id
        /\ r1.part_number = 100 /\ r2.part_number = 100
        /\ r1.name = "2&quot; tube"

IsCreatedItem(w) ==
    /\ inflight[w].pc = "done"
    /\ inflight[w].op = "POST /projects/:projectId/order-items"
\* workers a and b posted an item of the same vendor in the same project, and
\* both looked the open order up when there was none, before either inserted
\* an order
LookedUpTogether(a, b) ==
    /\ inflight[a].projectId = inflight[b].projectId
    /\ inflight[a].body.vendor = inflight[b].body.vendor
    /\ inflight[a].seen = inflight[b].seen
    /\ ~\E o \in orders : /\ o.id \in inflight[a].seen
                          /\ o.project_id = inflight[a].projectId
                          /\ o.vendor_name = inflight[a].body.vendor

\* C22: two creations of an item of vendor V in one project without an open
\* V order, whose lookups both run before either inserts its order, each
\* create an order: the project then has two open V orders, each holding
\* one of the two items.
RacingItemsCreateTwoOrders ==
    \A a, b \in Workers :
        (a # b /\ IsCreatedItem(a) /\ IsCreatedItem(b) /\ LookedUpTogether(a, b)) =>
            /\ inflight[a].status = 201 /\ inflight[b].status = 201
            /\ inflight[a].inserted /\ inflight[b].inserted
            /\ inflight[a].orderId # inflight[b].orderId
            /\ \A w \in {a, b} :
                  /\ inflight[w].row \in order_items
                  /\ inflight[w].row.order_id = inflight[w].orderId
                  /\ \E o \in orders : /\ o.id = inflight[w].orderId
                                       /\ o.project_id = inflight[w].projectId
                                       /\ o.vendor_name = inflight[w].body.vendor
                                       /\ o.status = "open"

\* C22 witness: two open orders of one vendor in one project, each with one
\* of the items of two creations that ran at the same time
TwoOpenOrdersStored ==
    \E a, b \in Workers :
        /\ a # b /\ IsCreatedItem(a) /\ IsCreatedItem(b) /\ LookedUpTogether(a, b)
        /\ \E o1, o2 \in orders :
              /\ o1.id # o2.id
              /\ o1.project_id = o2.project_id /\ o1.vendor_name = o2.vendor_name
              /\ o1.status = "open" /\ o2.status = "open"
              /\ inflight[a].row \in order_items /\ inflight[a].row.order_id = o1.id
              /\ inflight[b].row \in order_items /\ inflight[b].row.order_id = o2.id

IsUpdatedItem(w) ==
    /\ inflight[w].pc = "done"
    /\ inflight[w].op = "PUT /order-items/:id"
    /\ inflight[w].status = 200

\* C27: a PUT /order-items/{id} whose body omits vendor never changes the
\* item's order_id: the row it stores has the order_id the item had just
\* before, also when another PUT reassigned the item's vendor in between.
VendorlessUpdateKeepsOrder ==
    \A w \in Workers :
        (IsUpdatedItem(w) /\ ~Has(inflight[w].body, "vendor")) =>
            inflight[w].row.order_id = inflight[w].was

\* C29: each order item's order_id is null or the id of an existing order
\* of the item's project, under every interleaving of the statements of
\* creations and updates of items and deletions of orders.
ItemOrderInSameProject ==
    \A i \in order_items :
        \/ i.order_id = NULL
        \/ \E o \in orders : o.id = i.order_id /\ o.project_id = i.project_id

\* C29 witness: an item of project 2 that a PUT attached to an order of
\* project 2, while project 1 has an open order of the same vendor
ItemRoutedWithinProject ==
    \E w \in Workers, i \in order_items, o, o1 \in orders :
        /\ IsUpdatedItem(w) /\ Truthy(inflight[w].body, "vendor")
        /\ inflight[w].row = i
        /\ inflight[w].was # i.order_id
        /\ i.project_id = 2 /\ o.id = i.order_id /\ o.project_id = 2
        /\ o1.project_id = 1 /\ o1.vendor_name = o.vendor_name
        /\ o1.status = "open"
====
